---- MODULE Spec2Model ----
(***************************************************************************)
(* Model of the brandad-generator client: the Home component's generation  *)
(* and regeneration flows (src/src/components/ApiKeyInput.tsx), the        *)
(* InputSection form (src/src/components/AnalysisProgress.tsx), and the    *)
(* OpenAI service (src/src/services/openaiService.ts).                     *)
(*                                                                         *)
(* Strings the code inspects or builds piecewise (descriptions, prompts,   *)
(* labels, image locators) are "texts": sequences of string tokens, so     *)
(* that trim, startsWith, replace and concatenation are computed.  Error   *)
(* messages are TLA+ strings built with \o.  A JavaScript value that is    *)
(* null/undefined or a value v is the sequence << >> or << v >>.           *)
(***************************************************************************)
EXTENDS Integers, Sequences, FiniteSets, TLC

\* ------------------------------------------------------------------ bounds

\* Largest count n of a direct generateImages call.
MaxCount == 3
\* Largest number of progress-timer ticks observed in one session.
MaxTicks == 1
\* Largest number of regenerations started in one session.
MaxRegens == 1
\* Largest value read from the clock (Date.now()).
MaxClock == 0
\* Largest number of ads holding a rating at one time.
MaxRatings == 1

\* ------------------------------------------------------------------ values

Null == << >>
Some(v) == << v >>

\* Step enum of the Home component.
StepInput == "input"
StepGeneration == "generation"

\* maxProgress of startProgressAnimation and the other progress constants,
\* in millionths of a percent (fixed point for the floating-point values).
Scale == 1000000
maxProgress == 95 * Scale
FullProgress == 100 * Scale
MinIncrement == Scale \div 2
IncrementDivisor == 20

\* The three built-in ad type labels.
CreativeConceptAd == << "Creative", " ", "Concept", " ", "Ad" >>
BenefitHighlightAd == << "Benefit", " ", "Highlight", " ", "Ad" >>
EcommerceStyleAd == << "Ecommerce-Style", " ", "Ad" >>

\* An AdTypeSpec of the configuration. hasType = FALSE is an entry of a
\* fetched document that carries no "type" field.
AdTypeSpec(t, p) == [hasType |-> TRUE, type |-> t, prompt |-> p]

\* The built-in adTypes of generateAdVariations (prompts abbreviated to
\* one token each).
DefaultAdTypes ==
  << AdTypeSpec(CreativeConceptAd, << "\n\n1. Creative Concept Ad: ..." >>),
     AdTypeSpec(BenefitHighlightAd, << "\n\n1. Benefit Highlight Ad: ..." >>),
     AdTypeSpec(EcommerceStyleAd, << "\n\n1. Ecommerce-Style Ad: ..." >>) >>

BasePromptHead ==
  "Create a professional ecommerce ad for this product. The product description is: \""
BasePromptTail == "\". CRITICAL INSTRUCTION: ..."

\* The built-in base prompt around the enhanced description.
DefaultBasePrompt(enhancedDescription) ==
  << BasePromptHead >> \o enhancedDescription \o << BasePromptTail >>

\* The three stock images and the fallbackAds of generateAdVariations.
StockImage1 == << "http", "s://images.unsplash.com/photo-1542744173-8e7e53415bb0?w=800&q=80" >>
StockImage2 == << "http", "s://images.unsplash.com/photo-1557804506-669a67965ba0?w=800&q=80" >>
StockImage3 == << "http", "s://images.unsplash.com/photo-1661956602926-db6b25f75947?w=800&q=80" >>

\* A GeneratedAd. rating is << >> (undefined) or << v >>; an absent
\* isRegenerating is FALSE (the code only tests it for truthiness).
Ad(id, url, t) ==
  [id |-> id, imageUrl |-> url, adType |-> t, rating |-> Null,
   isRegenerating |-> FALSE]

fallbackAds ==
  << Ad(<< "1" >>, StockImage1, CreativeConceptAd),
     Ad(<< "2" >>, StockImage2, BenefitHighlightAd),
     Ad(<< "3" >>, StockImage3, EcommerceStyleAd) >>

\* ------------------------------------------------------------------ texts

IsSpace(tok) == tok \in {" ", "\n", "\t"}

RECURSIVE TrimStart(_)
TrimStart(t) ==
  IF t # << >> /\ IsSpace(Head(t)) THEN TrimStart(Tail(t)) ELSE t

RECURSIVE TrimEnd(_)
TrimEnd(t) ==
  IF t # << >> /\ IsSpace(t[Len(t)]) THEN TrimEnd(SubSeq(t, 1, Len(t) - 1))
  ELSE t

\* String.prototype.trim
Trim(t) == TrimEnd(TrimStart(t))

\* String.prototype.startsWith, for a one-token prefix
StartsWith(t, tok) == t # << >> /\ Head(t) = tok

\* The token of the replacement pattern written as a dollar sign followed by
\* a grave accent (the accent character cannot be written in a string here).
DollarGrave == "$[grave]"

\* The replacement patterns String.prototype.replace expands in its second
\* argument: "$$" is a dollar sign, "$&" the matched substring, dollar-grave
\* the text before the match and "$'" the text after it. A string pattern
\* has no capture groups, so every other token stands for itself.
RECURSIVE ExpandReplacement(_, _, _, _)
ExpandReplacement(repl, matched, before, after) ==
  IF repl = << >> THEN << >>
  ELSE (CASE Head(repl) = "$$" -> << "$" >>
          [] Head(repl) = "$&" -> << matched >>
          [] Head(repl) = DollarGrave -> before
          [] Head(repl) = "$'" -> after
          [] OTHER -> << Head(repl) >>)
       \o ExpandReplacement(Tail(repl), matched, before, after)

RECURSIVE IndexOf(_, _, _)
IndexOf(t, tok, from) ==
  IF from > Len(t) THEN 0
  ELSE IF t[from] = tok THEN from ELSE IndexOf(t, tok, from + 1)

\* t.replace(tok, repl): the first occurrence only
ReplaceFirst(t, tok, repl) ==
  LET k == IndexOf(t, tok, 1) IN
    IF k = 0 THEN t
    ELSE LET before == SubSeq(t, 1, k - 1)
             after == SubSeq(t, k + 1, Len(t)) IN
           before \o ExpandReplacement(repl, tok, before, after) \o after

\* toLowerCase of one token
LowerToken(tok) ==
  CASE tok = "Creative" -> "creative"
    [] tok = "Concept" -> "concept"
    [] tok = "Ad" -> "ad"
    [] tok = "Benefit" -> "benefit"
    [] tok = "Highlight" -> "highlight"
    [] tok = "Ecommerce-Style" -> "ecommerce-style"
    [] tok = "X" -> "x"
    [] OTHER -> tok

\* type.toLowerCase().replace(/\s+/g, "-")
RECURSIVE Slug(_)
Slug(t) ==
  IF t = << >> THEN << >>
  ELSE IF IsSpace(Head(t))
       THEN << "-" >> \o Slug(TrimStart(t))
       ELSE << LowerToken(Head(t)) >> \o Slug(Tail(t))

\* `gen-${Date.now()}-${slug}`
AdId(now, type) == << "gen-", ToString(now), "-" >> \o Slug(type)

\* ------------------------------------------------------------------ errors

\* A thrown value. isError: it is an instance of Error. json: its message is
\* the JSON text of an object {message, status, details}, in which case
\* message and status are that object's fields.
PlainError(m) == [isError |-> TRUE, json |-> FALSE, message |-> m, status |-> 0]
JsonError(m, status) ==
  [isError |-> TRUE, json |-> TRUE, message |-> m, status |-> status]
\* A rejection value that is no Error (the ProgressEvent of FileReader)
NonError == [isError |-> FALSE, json |-> FALSE, message |-> "", status |-> 0]

KeyNotConfigured == "OpenAI API key is not configured"
FailedToFetch == "Failed to fetch"
\* The TypeError of reading a Response body a second time
BodyAlreadyRead == "body stream already read"
\* The TypeError of reading a property of undefined or null
CannotReadProperties == "Cannot read properties of undefined"
ChunkLoadFailed == "Failed to fetch dynamically imported module"

\* ------------------------------------------------------------------ enhancePrompt

\* What the chat-completion call does: it rejects, or resolves with a
\* response. choices: "absent" (no choices field), "empty" (no first
\* choice or no message content), "content".
CompletionReject == [rejects |-> TRUE, choices |-> "absent", content |-> << >>]
CompletionOf(kind, content) ==
  [rejects |-> FALSE, choices |-> kind, content |-> content]

\* The body of enhancePrompt's try block and its catch, on the outcome of
\* the completion call: the enhanced prompt returned.
\* Variant: only a rejection falls back to the original prompt.
EnhanceResultNoFallback(userPrompt, completion) ==
  IF completion.rejects THEN userPrompt ELSE Trim(completion.content)

EnhanceResult(userPrompt, completion) ==
  IF completion.rejects THEN userPrompt
  ELSE IF completion.choices = "absent" THEN userPrompt
  ELSE IF completion.choices = "empty" THEN userPrompt
  ELSE IF Trim(completion.content) = << >> THEN userPrompt
  ELSE Trim(completion.content)

\* enhancePrompt's credential check: TRUE when the call throws before its
\* try block.
\* Variant: no credential check.
EnhanceThrowsLenient(key) == FALSE

EnhanceThrows(key) == ~key

\* ------------------------------------------------------------------ generateImages

\* One entry of the data list of a success body.
Item(url, b64, strings) == [url |-> url, b64 |-> b64, strings |-> strings]

\* A parsed JSON body. isNull: the JSON value null. errMsg: error.message
\* (<< >> when absent or empty). hasData: data is a list. items: that list.
\* strings: the string values of the whole object in traversal order.
Json(errMsg, hasData, items, strings) ==
  [isNull |-> FALSE, errMsg |-> errMsg, hasData |-> hasData, items |-> items,
   strings |-> strings]
JsonNull ==
  [isNull |-> TRUE, errMsg |-> Null, hasData |-> FALSE, items |-> << >>,
   strings |-> << >>]

\* What the POST to the image-edit endpoint does: fetch rejects, or a
\* response with ok/status and a body that parses as JSON or does not.
EditReject ==
  [rejects |-> TRUE, ok |-> FALSE, status |-> 0, parses |-> FALSE, json |-> JsonNull]
EditResponse(ok, status, parses, json) ==
  [rejects |-> FALSE, ok |-> ok, status |-> status, parses |-> parses, json |-> json]

IsLocator(t) == StartsWith(t, "http") \/ StartsWith(t, "data:")

\* The strings of a sequence that look like a URL or embedded data
RECURSIVE Locators(_)
Locators(strings) ==
  IF strings = << >> THEN << >>
  ELSE IF IsLocator(Head(strings))
       THEN << Head(strings) >> \o Locators(Tail(strings))
       ELSE Locators(Tail(strings))

\* The error thrown for a non-OK response.
NotOkError(resp) ==
  LET generic == "API request failed with status " \o ToString(resp.status) IN
    IF ~resp.parses \/ resp.json.isNull THEN PlainError(BodyAlreadyRead)
    ELSE IF resp.json.errMsg # Null
         THEN JsonError(resp.json.errMsg[1], resp.status)
         ELSE JsonError(generic, resp.status)

\* The parse of a success body: [ok |-> TRUE, url |-> locator] or
\* [ok |-> FALSE, error |-> thrown value].
Found(url) == [ok |-> TRUE, url |-> url, error |-> NonError]
Threw(e) == [ok |-> FALSE, url |-> << >>, error |-> e]

ParseSuccess(resp) ==
  IF ~resp.parses THEN Threw(PlainError("Failed to parse API response"))
  ELSE IF resp.json.isNull THEN Threw(PlainError(CannotReadProperties))
  ELSE IF resp.json.hasData
       THEN IF resp.json.items = << >>
            THEN Threw(PlainError("API response contains empty data array"))
            ELSE LET firstItem == resp.json.items[1] IN
                   IF firstItem.url # << >> THEN Found(firstItem.url)
                   ELSE IF firstItem.b64 # << >>
                        THEN Found(<< "data:", "image/png;base64," >> \o firstItem.b64)
                   ELSE IF Locators(firstItem.strings) # << >>
                        THEN Found(Locators(firstItem.strings)[1])
                   ELSE Threw(PlainError(
                          "API response missing image data - no URL or base64 found"))
       ELSE IF Locators(resp.json.strings) # << >>
            THEN Found(Locators(resp.json.strings)[1])
            ELSE Threw(PlainError(
                   "API response missing image data - no URLs found in response"))

\* One request's outcome: the locator, or the thrown value.
RequestOutcome(resp) ==
  IF resp.rejects THEN Threw(PlainError(FailedToFetch))
  ELSE IF ~resp.ok THEN Threw(NotOkError(resp))
  ELSE ParseSuccess(resp)

\* The message of the Error generateImages throws from its outer catch.
\* Variant: the status is not appended.
FinalMessageBare(error) ==
  IF error.isError THEN error.message ELSE "Failed to generate images"

FinalMessage(error) ==
  IF error.isError
  THEN IF error.json
       THEN error.message \o " (Status: " \o ToString(error.status) \o ")"
       ELSE error.message
  ELSE "Failed to generate images"

\* `${prompt} (Variation ${i + 1} of ${n})`
VariedPrompt(prompt, i, n) ==
  prompt \o << " (Variation ", ToString(i + 1), " of ", ToString(n), ")" >>

\* The ok flag and status of a Response, known once fetch resolves.
NoHead == [ok |-> FALSE, status |-> 0]
HeadOf(resp) == [ok |-> resp.ok, status |-> resp.status]

\* The activation of one generateImages call: where it is suspended (st),
\* its count n and loop index i, the prompt, the locators so far, the head
\* of the response whose body is being read, and the message of the Error
\* it threw.
GiIdle ==
  [st |-> "idle", n |-> 0, i |-> 0, prompt |-> << >>, imageUrls |-> << >>,
   head |-> NoHead, message |-> ""]
GiThrown(g, m) == [g EXCEPT !.st = "thrown", !.head = NoHead, !.message = m]

\* The call up to its first await: the credential check and the start of
\* the first iteration (the image-source fetch is then outstanding).
GiStart(key, prompt, n) ==
  LET g == [GiIdle EXCEPT !.n = n, !.prompt = prompt] IN
    IF ~key THEN GiThrown(g, KeyNotConfigured)
    ELSE IF n <= 0
         THEN GiThrown(g, FinalMessage(PlainError("Failed to generate any images")))
         ELSE [g EXCEPT !.st = "blob"]

\* fetchImageBlob: the fetch of the image source resolved, and the read of
\* its body (response.blob()) is awaited.
GiBlobFetched(g) == [g EXCEPT !.st = "blobBody"]

\* TRUE when fetchImageBlob can end with outcome ok: the fetch rejects, or
\* the body of the fetched response has been read.
BlobSettles(g, ok) == g.st = IF ok THEN "blobBody" ELSE "blob"

\* The POST resolved with a response: its body is read next, with
\* response.text(), or with response.json() when the response is not ok.
GiPostFetched(g, head) == [g EXCEPT !.st = "postBody", !.head = head]

\* TRUE when the POST can end with outcome resp: the fetch rejects, or the
\* body of the response received has been read. (When json() fails on a
\* response that is not ok, the text() that follows rejects at once.)
PostSettles(g, resp) ==
  IF resp.rejects THEN g.st = "post"
  ELSE g.st = "postBody" /\ g.head = HeadOf(resp)

\* fetchImageBlob has ended: on success the POST is issued.
GiBlobDone(g, ok) ==
  IF ok THEN [g EXCEPT !.st = "post"]
  ELSE GiThrown(g, FinalMessage(PlainError(FailedToFetch)))

\* The POST has ended with outcome resp: the locator is appended, then the delay is
\* started (another iteration follows) or the call returns.
\* Variant: a response that yields no locator is skipped.
GiPostDoneSkipping(g, resp) ==
  LET o == RequestOutcome(resp)
      urls == IF o.ok THEN Append(g.imageUrls, o.url) ELSE g.imageUrls IN
    IF g.i < g.n - 1
    THEN [g EXCEPT !.st = "delay", !.head = NoHead, !.imageUrls = urls]
    ELSE IF urls = << >>
         THEN GiThrown(g, FinalMessage(PlainError("Failed to generate any images")))
         ELSE [g EXCEPT !.st = "returned", !.head = NoHead, !.imageUrls = urls]

\* Variant: the delay is also waited after the final request.
GiPostDoneAlwaysDelays(g, resp) ==
  LET o == RequestOutcome(resp) IN
    IF ~o.ok THEN GiThrown(g, FinalMessage(o.error))
    ELSE [g EXCEPT !.st = "delay", !.head = NoHead,
                   !.imageUrls = Append(g.imageUrls, o.url)]

GiPostDone(g, resp) ==
  LET o == RequestOutcome(resp) IN
    IF ~o.ok THEN GiThrown(g, FinalMessage(o.error))
    ELSE LET urls == Append(g.imageUrls, o.url) IN
           IF g.i < g.n - 1
           THEN [g EXCEPT !.st = "delay", !.head = NoHead, !.imageUrls = urls]
           ELSE [g EXCEPT !.st = "returned", !.head = NoHead, !.imageUrls = urls]

\* The delay has elapsed: the next iteration starts.
GiDelayDone(g) == [g EXCEPT !.st = "blob", !.i = g.i + 1]

\* ------------------------------------------------------------------ remote config

\* A fetched document. base: "absent", "string" or "other" (a truthy value
\* that is no string); adTypes: "absent", "array" or "other".
Doc(base, basePrompt, adTypes, list) ==
  [isNull |-> FALSE, base |-> base, basePrompt |-> basePrompt,
   adTypes |-> adTypes, list |-> list]
DocNull ==
  [isNull |-> TRUE, base |-> "absent", basePrompt |-> << >>,
   adTypes |-> "absent", list |-> << >>]

\* What the GET of the config URL does.
ConfigReject == [rejects |-> TRUE, ok |-> FALSE, parses |-> FALSE, doc |-> DocNull]
ConfigResponse(ok, parses, doc) ==
  [rejects |-> FALSE, ok |-> ok, parses |-> parses, doc |-> doc]

\* if (response.ok): only the body of an ok response is read, with
\* response.json().
ConfigNeedsBody(cfg) == ~cfg.rejects /\ cfg.ok

\* TRUE when the try block around the config fetch can end with outcome
\* cfg at position pc: at fetched when the fetch rejects or resolves with a
\* response that is not ok, at body when the body of an ok response has
\* been read.
ConfigSettles(pc, cfg, fetched, body) ==
  pc = IF ConfigNeedsBody(cfg) THEN body ELSE fetched

\* TRUE when the response yields a document the merge code reads
\* Variant: response.ok is not tested.
ConfigReadableIgnoresStatus(cfg) == ~cfg.rejects /\ cfg.parses /\ ~cfg.doc.isNull

ConfigReadable(cfg) == ~cfg.rejects /\ cfg.ok /\ cfg.parses /\ ~cfg.doc.isNull

\* externalConfig.basePrompt is truthy
HasBasePrompt(doc) ==
  doc.base = "other" \/ (doc.base = "string" /\ doc.basePrompt # << >>)

\* externalConfig.adTypes && Array.isArray(externalConfig.adTypes)
HasAdTypes(doc) == doc.adTypes = "array"

\* The merge of generateAdVariations: the base prompt and the adTypes in
\* force after the try/catch around the fetch.
\* Variant: the document is applied only when it carries both fields.
ResolveConfigWholesale(cfg, enhancedDescription) ==
  IF ConfigReadable(cfg) /\ cfg.doc.base = "string" /\ HasBasePrompt(cfg.doc)
     /\ HasAdTypes(cfg.doc)
  THEN [basePrompt |->
          ReplaceFirst(cfg.doc.basePrompt, "{DESCRIPTION}", enhancedDescription),
        adTypes |-> cfg.doc.list]
  ELSE [basePrompt |-> DefaultBasePrompt(enhancedDescription),
        adTypes |-> DefaultAdTypes]

ResolveConfig(cfg, enhancedDescription) ==
  LET defaults == [basePrompt |-> DefaultBasePrompt(enhancedDescription),
                   adTypes |-> DefaultAdTypes] IN
    IF ~ConfigReadable(cfg) THEN defaults
    ELSE IF HasBasePrompt(cfg.doc) /\ cfg.doc.base = "other" THEN defaults
    ELSE [basePrompt |->
            IF HasBasePrompt(cfg.doc)
            THEN ReplaceFirst(cfg.doc.basePrompt, "{DESCRIPTION}", enhancedDescription)
            ELSE defaults.basePrompt,
          adTypes |->
            IF HasAdTypes(cfg.doc) THEN cfg.doc.list ELSE defaults.adTypes]

\* The first fetch of handleRegenerateAd: currentAdTypes
ResolveAdTypes(cfg) ==
  IF ConfigReadable(cfg) /\ HasAdTypes(cfg.doc) THEN cfg.doc.list
  ELSE DefaultAdTypes

\* The second fetch of handleRegenerateAd: currentBasePrompt
ResolveBasePrompt(cfg, enhancedDescription) ==
  IF ConfigReadable(cfg) /\ HasBasePrompt(cfg.doc) /\ cfg.doc.base = "string"
  THEN ReplaceFirst(cfg.doc.basePrompt, "{DESCRIPTION}", enhancedDescription)
  ELSE DefaultBasePrompt(enhancedDescription)

\* ------------------------------------------------------------------ inputs

\* What the user may type as the description, and the accepted file.
ValidDescription == << "mug" >>
FormDescriptions == { << >>, << " " >>, ValidDescription }
ProductFile == "product.png"

\* A File as onDrop reads it: its name, MIME type and size in bytes.
File(name, type, size) == [name |-> name, type |-> type, size |-> size]

\* The lists the dropzone passes to onDrop as acceptedFiles. Its accept
\* option lets a file through by MIME type or by extension, its maxSize of
\* 4MB keeps larger files out, and a rejected drop arrives as the empty
\* list: a PNG, a file named .png whose type the browser left empty, and
\* a rejected drop.
DropOutcomes ==
  { << File(ProductFile, "image/png", 1000) >>,
    << File("untyped.png", "", 1000) >>,
    << >> }

\* Outcomes of the chat-completion call.
EnhancedText == << "glossy mug" >>
CompletionOutcomes ==
  { CompletionReject,
    CompletionOf("absent", << >>),
    CompletionOf("empty", << >>),
    CompletionOf("content", << " " >>),
    CompletionOf("content", << " " >> \o EnhancedText \o << "\n" >>) }

\* A completion whose text carries a replacement pattern of
\* String.prototype.replace, tried in the top-level generation.
PatternText == << "mug for ", "$'" >>
GenCompletionOutcomes ==
  CompletionOutcomes \cup { CompletionOf("content", PatternText) }

\* Outcomes of the GET of the config URL.
AdTypeX == AdTypeSpec(<< "X" >>, << "Y" >>)
AdTypeUntyped == [hasType |-> FALSE, type |-> << >>, prompt |-> << "Z" >>]
RemoteBasePrompt == << "Ad for ", "{DESCRIPTION}", ". Keep ", "{DESCRIPTION}", " central." >>
RemoteDocs ==
  { Doc("absent", << >>, "absent", << >>),
    Doc("absent", << >>, "array", << AdTypeX >>),
    Doc("string", RemoteBasePrompt, "absent", << >>),
    Doc("string", RemoteBasePrompt, "array", << AdTypeX >>),
    Doc("string", << >>, "array", << >>),
    Doc("absent", << >>, "other", << >>),
    Doc("other", << >>, "array", << AdTypeX >>),
    Doc("absent", << >>, "array", << AdTypeX, AdTypeUntyped >>),
    Doc("absent", << >>, "array", << AdTypeX, AdTypeX >>),
    DocNull }
ConfigOutcomes ==
  { ConfigReject,
    ConfigResponse(FALSE, TRUE, Doc("string", RemoteBasePrompt, "array", << AdTypeX >>)),
    ConfigResponse(TRUE, FALSE, DocNull) }
  \cup { ConfigResponse(TRUE, TRUE, d) : d \in RemoteDocs }

\* Outcomes of the POST to the image-edit endpoint.
LocatorA == << "http", "s://img.example/a.png" >>
PayloadB == << "QUJD" >>
LocatorB == << "data:", "image/png;base64," >> \o PayloadB
NoJson == JsonNull
EditOutcomes ==
  { EditReject,
    EditResponse(FALSE, 400, TRUE, Json(Some("invalid image"), FALSE, << >>, << >>)),
    EditResponse(FALSE, 429, TRUE, Json(Some("rate limit"), FALSE, << >>, << >>)),
    EditResponse(FALSE, 400, TRUE, Json(Null, FALSE, << >>, << >>)),
    EditResponse(FALSE, 500, FALSE, NoJson),
    EditResponse(TRUE, 200, FALSE, NoJson),
    EditResponse(TRUE, 200, TRUE, JsonNull),
    EditResponse(TRUE, 200, TRUE,
                 Json(Null, TRUE, << Item(LocatorA, PayloadB, << >>) >>, << LocatorA, PayloadB >>)),
    EditResponse(TRUE, 200, TRUE,
                 Json(Null, TRUE, << Item(<< >>, PayloadB, << >>) >>, << PayloadB >>)),
    EditResponse(TRUE, 200, TRUE,
                 Json(Null, TRUE, << Item(<< >>, << >>, << << "png" >>, LocatorA >>) >>,
                      << << "png" >>, LocatorA >>)),
    EditResponse(TRUE, 200, TRUE,
                 Json(Null, TRUE, << Item(<< >>, << >>, << << "png" >> >>) >>,
                      << << "png" >> >>)),
    EditResponse(TRUE, 200, TRUE,
                 Json(Null, TRUE, << Item(<< >>, << >>, << << "png" >> >>) >>,
                      << << "png" >>, LocatorA >>)),
    EditResponse(TRUE, 200, TRUE, Json(Null, TRUE, << >>, << LocatorA >>)),
    EditResponse(TRUE, 200, TRUE, Json(Null, FALSE, << >>, << << "done" >>, LocatorB >>)),
    EditResponse(TRUE, 200, TRUE, Json(Null, FALSE, << >>, << << "done" >> >>)) }

\* The outcomes of the POST tried within a session: one of each result a
\* generateImages call can hand to its caller (two locators, three messages).
SessionEditOutcomes ==
  { resp \in EditOutcomes :
      \/ resp.rejects
      \/ ~resp.ok /\ resp.parses /\ resp.json.errMsg # Null
      \/ resp.ok /\ resp.parses /\ ~resp.json.isNull /\ resp.json.hasData
         /\ resp.json.items # << >> /\ resp.json.items[1].b64 # << >> }

\* The outcomes tried for the POSTs of a top-level batch: the failures
\* and the success that carries data[0].url.
GenEditOutcomes ==
  { resp \in SessionEditOutcomes : resp.ok => resp.json.items[1].url # << >> }

\* The heads of the responses of a set of POST outcomes
EditHeads(outcomes) == { HeadOf(resp) : resp \in { r \in outcomes : ~r.rejects } }

\* Values of Math.random() as printed in the placeholder URL.
RandomValues == { "0.25", "0.75" }

\* ------------------------------------------------------------------ state

VARIABLES
  apiKey,              \* import.meta.env.VITE_OPENAI_API_KEY is set
  mounted,             \* the Home component is mounted
  moduleLoaded,        \* the openaiService module has been imported
  clock,               \* the last value read from Date.now()
  formDescription,     \* InputSection: description
  formImage,           \* InputSection: image
  formError,           \* InputSection: error
  currentStep,         \* Home: currentStep
  productDescription,  \* Home: productDescription
  productImage,        \* Home: productImage
  generatedAds,        \* Home: generatedAds
  generationError,     \* Home: generationError
  isGenerating,        \* Home: isGenerating
  progressValue,       \* Home: progressValue
  progressMessage,     \* Home: progressMessage
  timer,               \* the interval of startProgressAnimation
  gen,                 \* the activation of generateAdVariations
  regen,               \* the activations of handleRegenerateAd
  svc                  \* a direct call of a service function

vars ==
  << apiKey, mounted, moduleLoaded, clock, formDescription, formImage, formError,
     currentStep, productDescription, productImage, generatedAds,
     generationError, isGenerating, progressValue, progressMessage, timer,
     gen, regen, svc >>

envVars == << apiKey, mounted >>
formVars == << formDescription, formImage, formError >>
homeVars ==
  << currentStep, productDescription, productImage, generatedAds,
     generationError, isGenerating, progressValue, progressMessage >>

NoRequests == [completion |-> 0, imageSrc |-> 0, edit |-> 0, config |-> 0]
\* The activation a after it issued one more request of a kind
\* Variant: the request is sent a second time without waiting.
IssueTwice(a, kind) == [a EXCEPT !.reqs[kind] = @ + 2]

Issue(a, kind) == [a EXCEPT !.reqs[kind] = @ + 1]

TimerOff == [active |-> FALSE, currentProgress |-> 0, ticks |-> 0]

\* reqs: the network requests the activation has issued, by kind.
GenIdle ==
  [pc |-> "idle", enhancedDescription |-> << >>, basePrompt |-> << >>,
   adTypes |-> << >>, k |-> 0, ads |-> << >>, gi |-> GiIdle,
   reqs |-> NoRequests]

RegenSlots == 1 .. MaxRegens
RegenIdle ==
  [pc |-> "idle", id |-> << >>, adType |-> << >>, typePrompt |-> << >>,
   enhancedDescription |-> << >>, gi |-> GiIdle, reqs |-> NoRequests]

\* result: the value an enhancePrompt call returned. message: the message
\* of the Error a call threw.
SvcIdle ==
  [pc |-> "idle", fn |-> "", userPrompt |-> << >>, result |-> << >>,
   message |-> "", gi |-> GiIdle, reqs |-> NoRequests]

\* The state after the components are constructed (useState initial values).
HomeInit ==
  /\ moduleLoaded = FALSE
  /\ clock = 0
  /\ formDescription = << >>
  /\ formImage = Null
  /\ formError = Null
  /\ currentStep = StepInput
  /\ productDescription = << >>
  /\ productImage = Null
  /\ generatedAds = << >>
  /\ generationError = Null
  /\ isGenerating = FALSE
  /\ progressValue = 0
  /\ progressMessage = "Uploading your image"
  /\ timer = TimerOff
  /\ gen = GenIdle
  /\ svc = SvcIdle

Init ==
  /\ apiKey \in BOOLEAN
  /\ mounted = TRUE
  /\ HomeInit
  /\ regen = [s \in RegenSlots |-> RegenIdle]

\* ------------------------------------------------------------------ InputSection

\* handleDescriptionChange
\* <Tabs value={currentStep}> renders the content of the Input tab, and
\* with it the form, only while the phase is Input; the tab triggers are
\* disabled unless current and Tabs has no change handler.
\* Variant: the form stays on screen in every phase.
InputTabAlwaysShown == TRUE

InputTabShown == currentStep = StepInput

HandleDescriptionChange(d) ==
  /\ mounted
  /\ InputTabShown
  /\ formDescription' = d
  /\ formError' = Null
  /\ UNCHANGED << envVars, moduleLoaded, clock, formImage, homeVars, timer,
                  gen, regen, svc >>

\* file.type.match("image/png") || match("image/jpeg") || match("image/jpg"):
\* the type contains one of the three texts, which for a MIME type of the
\* files above means it is one of them.
IsImageType(type) == type \in { "image/png", "image/jpeg", "image/jpg" }

\* 15 * 1024 * 1024
MaxImageBytes == 15 * 1024 * 1024

\* onDrop(acceptedFiles): the error is reset, then the first file is
\* validated and kept. On the empty list the read of file.type throws
\* after the reset. image holds the File, written here as its name.
OnDrop(acceptedFiles) ==
  /\ mounted
  /\ InputTabShown
  /\ IF acceptedFiles = << >>
     THEN formError' = Null /\ formImage' = formImage
     ELSE LET file == acceptedFiles[1] IN
            IF ~IsImageType(file.type)
            THEN /\ formError' = Some("Please upload a valid PNG or JPEG image")
                 /\ formImage' = formImage
            ELSE IF file.size > MaxImageBytes
                 THEN /\ formError' = Some("Image size must be less than 15MB")
                      /\ formImage' = formImage
                 ELSE /\ formError' = Null
                      /\ formImage' = Some(file.name)
  /\ UNCHANGED << envVars, moduleLoaded, clock, formDescription, homeVars,
                  timer, gen, regen, svc >>

\* Variant: the description is not trimmed before it is tested.
FormValidUntrimmed == formDescription # << >> /\ formImage # Null

\* Variant: the image is not required.
FormValidWithoutImage == formDescription # << >> /\ Trim(formDescription) # << >>

\* description is non-empty after trim, and an image is present
FormValid == formDescription # << >> /\ Trim(formDescription) # << >> /\ formImage # Null

\* handleSubmit, rejecting the submission
HandleSubmitInvalid ==
  /\ mounted
  /\ InputTabShown
  /\ ~isGenerating
  /\ ~FormValid
  /\ formError' =
       IF formDescription = << >> \/ Trim(formDescription) = << >>
       THEN Some("Please enter a product description")
       ELSE Some("Please upload a product image")
  /\ UNCHANGED << envVars, moduleLoaded, clock, formDescription, formImage,
                  homeVars, timer, gen, regen, svc >>

\* ------------------------------------------------------------------ generateAdVariations

\* The batch the inner catch installs, given the ads collected so far.
\* Variant: the ads collected so far are kept.
FallbackBatchKeepsPartial(ads) ==
  ads \o SubSeq(fallbackAds, Len(ads) + 1, Len(fallbackAds))

FallbackBatch(ads) == fallbackAds

\* The message of a caught value, with the catch's default.
CaughtMessage(error, default) == IF error.isError THEN error.message ELSE default

\* The loading flag the outer catch leaves.
\* Variant: the outer catch leaves the flag set.
OuterCatchLoadingStuck == TRUE

OuterCatchLoading == FALSE

\* The outer catch of generateAdVariations, which leaves the progress
\* message as the try block last set it.
OuterCatch(g, error) ==
  /\ generationError' = Some(CaughtMessage(error, "Failed to generate ad variations"))
  /\ isGenerating' = OuterCatchLoading
  /\ gen' = [GenIdle EXCEPT !.pc = "done"]
  /\ UNCHANGED << currentStep, productDescription, productImage, generatedAds,
                  progressValue >>

\* The end of the try block: the batch is set (by the loop or by the inner
\* catch, which also sets the error), progress is completed and the
\* timeout that clears the loading flag is started. Of the locals only the
\* adTypes a successful loop iterated are kept.
GenComplete(g, ads, err) ==
  /\ generatedAds' = ads
  /\ generationError' = IF err = Null THEN generationError ELSE err
  /\ progressValue' = FullProgress
  /\ progressMessage' = "Complete!"
  /\ gen' = [GenIdle EXCEPT !.pc = "timeout",
                            !.adTypes = IF err = Null THEN g.adTypes ELSE << >>]
  /\ UNCHANGED << currentStep, productDescription, productImage, isGenerating >>

\* ads.push(ad)
\* Variant: the new ad is put in front.
PushFront(ads, ad) == << ad >> \o ads

Push(ads, ad) == Append(ads, ad)

\* The inner catch: the error message and the fallback ads.
InnerCatch(g, message) == GenComplete(g, FallbackBatch(g.ads), Some(message))

\* The head of the for loop at index g.k: the loop ends, or generateImages
\* is called for the next ad type.
GenContinue(g) ==
  IF g.k > Len(g.adTypes)
  THEN GenComplete(g, g.ads, Null)
  ELSE LET call == GiStart(apiKey, g.basePrompt \o g.adTypes[g.k].prompt, 1) IN
         IF call.st = "thrown"
         THEN InnerCatch(g, call.message)
         ELSE /\ gen' = Issue([g EXCEPT !.pc = "image", !.gi = call], "imageSrc")
              /\ UNCHANGED homeVars

\* handleSubmit on a valid form, handleInputSubmit and generateAdVariations
\* up to the dynamic import. The form is unmounted with the Input tab.
HandleSubmit ==
  /\ mounted
  /\ InputTabShown
  /\ ~isGenerating
  /\ FormValid
  /\ productDescription' = formDescription
  /\ productImage' = formImage
  /\ isGenerating' = TRUE
  /\ generationError' = Null
  /\ currentStep' = StepGeneration
  /\ progressValue' = 0
  /\ progressMessage' = "Enhancing your prompt"
  /\ timer' = [active |-> TRUE, currentProgress |-> 0, ticks |-> 0]
  /\ gen' = [GenIdle EXCEPT !.pc = "import"]
  /\ formDescription' = << >>
  /\ formImage' = Null
  /\ formError' = Null
  /\ UNCHANGED << envVars, moduleLoaded, clock, generatedAds, regen, svc >>

\* The dynamic import settles; the progress message is set and
\* enhancePrompt is called, which throws at once without a credential.
GenImported(ok) ==
  /\ gen.pc = "import"
  /\ moduleLoaded => ok
  /\ moduleLoaded' = (moduleLoaded \/ ok)
  /\ IF ~ok
     THEN /\ OuterCatch(gen, PlainError(ChunkLoadFailed))
          /\ UNCHANGED progressMessage
     ELSE IF EnhanceThrows(apiKey)
          THEN /\ progressMessage' = "Enhancing your description with AI"
               /\ OuterCatch(gen, PlainError(KeyNotConfigured))
          ELSE /\ gen' = Issue([gen EXCEPT !.pc = "enhance"], "completion")
               /\ progressMessage' = "Enhancing your description with AI"
               /\ UNCHANGED << currentStep, productDescription, productImage,
                               generatedAds, generationError, isGenerating,
                               progressValue >>
  /\ UNCHANGED << envVars, clock, formVars, timer, regen, svc >>

\* enhancePrompt settles; fileToDataUrl is called.
GenEnhanced(completion) ==
  /\ gen.pc = "enhance"
  /\ gen' = [gen EXCEPT !.pc = "readfile",
                        !.enhancedDescription =
                           EnhanceResult(productDescription, completion)]
  /\ progressMessage' = "Uploading your image"
  /\ UNCHANGED << envVars, moduleLoaded, clock, formVars, currentStep,
                  productDescription, productImage, generatedAds,
                  generationError, isGenerating, progressValue, timer, regen, svc >>

\* fileToDataUrl settles; the config URL is fetched.
GenFileRead(ok) ==
  /\ gen.pc = "readfile"
  /\ IF ~ok THEN OuterCatch(gen, NonError) /\ UNCHANGED progressMessage
     ELSE /\ gen' = Issue([gen EXCEPT !.pc = "config"], "config")
          /\ UNCHANGED homeVars
  /\ UNCHANGED << envVars, moduleLoaded, clock, formVars, timer, regen, svc >>

\* The config fetch resolves with an ok response; its body is read.
GenConfigFetched ==
  /\ gen.pc = "config"
  /\ gen' = [gen EXCEPT !.pc = "configBody"]
  /\ UNCHANGED << envVars, moduleLoaded, clock, formVars, homeVars, timer,
                  regen, svc >>

\* The try block around the config fetch ends; the loop starts.
GenConfigured(cfg) ==
  /\ ConfigSettles(gen.pc, cfg, "config", "configBody")
  /\ LET r == ResolveConfig(cfg, gen.enhancedDescription) IN
       GenContinue([gen EXCEPT !.basePrompt = r.basePrompt,
                               !.adTypes = r.adTypes, !.k = 1])
  /\ UNCHANGED << envVars, moduleLoaded, clock, formVars, timer, regen, svc >>

\* The image-source fetch of the current generateImages call resolves.
GenImageFetched ==
  /\ gen.pc = "image"
  /\ gen.gi.st = "blob"
  /\ gen' = [gen EXCEPT !.gi = GiBlobFetched(@)]
  /\ UNCHANGED << envVars, moduleLoaded, clock, formVars, homeVars, timer,
                  regen, svc >>

\* fetchImageBlob of the current generateImages call ends.
GenImageBlob(ok) ==
  /\ gen.pc = "image"
  /\ BlobSettles(gen.gi, ok)
  /\ LET g == GiBlobDone(gen.gi, ok) IN
       IF g.st = "thrown" THEN InnerCatch(gen, g.message)
       ELSE /\ gen' = Issue([gen EXCEPT !.gi = g], "edit")
            /\ UNCHANGED homeVars
  /\ UNCHANGED << envVars, moduleLoaded, clock, formVars, timer, regen, svc >>

\* The POST of the current generateImages call resolves with a response.
GenImagePostFetched(head) ==
  /\ gen.pc = "image"
  /\ gen.gi.st = "post"
  /\ gen' = [gen EXCEPT !.gi = GiPostFetched(@, head)]
  /\ UNCHANGED << envVars, moduleLoaded, clock, formVars, homeVars, timer,
                  regen, svc >>

\* The POST of the current generateImages call ends (n = 1, so the call
\* ends here); the ad is pushed and the loop goes on.
GenImagePost(resp, now) ==
  /\ gen.pc = "image"
  /\ PostSettles(gen.gi, resp)
  /\ now \in clock .. MaxClock
  /\ LET g == GiPostDone(gen.gi, resp)
         adType == gen.adTypes[gen.k] IN
       IF g.st = "thrown" THEN InnerCatch(gen, g.message) /\ clock' = clock
       ELSE IF ~adType.hasType
            THEN InnerCatch(gen, CannotReadProperties) /\ clock' = now
            ELSE /\ clock' = now
                 /\ GenContinue(
                      [gen EXCEPT !.ads = Push(@, Ad(AdId(now, adType.type),
                                                   g.imageUrls[1], adType.type)),
                                  !.k = @ + 1])
  /\ UNCHANGED << envVars, moduleLoaded, formVars, timer, regen, svc >>

\* The 500 ms timeout fires.
GenTimeout ==
  /\ gen.pc = "timeout"
  /\ isGenerating' = FALSE
  /\ gen' = [gen EXCEPT !.pc = "done"]
  /\ UNCHANGED << envVars, moduleLoaded, clock, formVars, currentStep,
                  productDescription, productImage, generatedAds,
                  generationError, progressValue, progressMessage, timer,
                  regen, svc >>

\* ------------------------------------------------------------------ startProgressAnimation

Max(a, b) == IF a >= b THEN a ELSE b
Min(a, b) == IF a <= b THEN a ELSE b

\* The message of the highest threshold reached.
MessageFor(p) ==
  IF p >= 80 * Scale THEN "Anytime now..."
  ELSE IF p >= 60 * Scale THEN "Almost done..."
  ELSE IF p >= 40 * Scale THEN "Doing quality assessment"
  ELSE IF p >= 20 * Scale THEN "Doing science"
  ELSE "Uploading your image"

\* currentProgress after one more increment
NextProgress(p) ==
  Min(maxProgress, p + Max(MinIncrement, (maxProgress - p) \div IncrementDivisor))

\* One firing of the interval callback.
TimerTick ==
  /\ timer.active
  /\ timer.ticks < MaxTicks
  /\ IF timer.currentProgress >= maxProgress
     THEN /\ timer' = [timer EXCEPT !.active = FALSE, !.ticks = @ + 1]
          /\ UNCHANGED << progressValue, progressMessage >>
     ELSE /\ timer' = [timer EXCEPT !.currentProgress = NextProgress(@),
                                    !.ticks = @ + 1]
          /\ progressValue' = NextProgress(timer.currentProgress)
          /\ progressMessage' = MessageFor(NextProgress(timer.currentProgress))
  /\ UNCHANGED << envVars, moduleLoaded, clock, formVars, currentStep,
                  productDescription, productImage, generatedAds,
                  generationError, isGenerating, gen, regen, svc >>

GenNext ==
  \/ \E d \in FormDescriptions : HandleDescriptionChange(d)
  \/ \E acceptedFiles \in DropOutcomes : OnDrop(acceptedFiles)
  \/ HandleSubmitInvalid
  \/ HandleSubmit
  \/ \E ok \in BOOLEAN : GenImported(ok)
  \/ \E c \in GenCompletionOutcomes : GenEnhanced(c)
  \/ \E ok \in BOOLEAN : GenFileRead(ok)
  \/ GenConfigFetched
  \/ \E cfg \in ConfigOutcomes : GenConfigured(cfg)
  \/ GenImageFetched
  \/ \E ok \in BOOLEAN : GenImageBlob(ok)
  \/ \E head \in EditHeads(GenEditOutcomes) : GenImagePostFetched(head)
  \/ \E resp \in GenEditOutcomes, now \in 0 .. MaxClock : GenImagePost(resp, now)
  \/ GenTimeout
  \/ TimerTick

GenSpec == Init /\ [][GenNext]_vars

\* The steps that an outstanding import, network call, file read or timeout
\* takes when it settles.
GenSettle ==
  \/ \E ok \in BOOLEAN : GenImported(ok)
  \/ \E c \in CompletionOutcomes : GenEnhanced(c)
  \/ \E ok \in BOOLEAN : GenFileRead(ok)
  \/ GenConfigFetched
  \/ \E cfg \in ConfigOutcomes : GenConfigured(cfg)
  \/ GenImageFetched
  \/ \E ok \in BOOLEAN : GenImageBlob(ok)
  \/ \E head \in EditHeads(GenEditOutcomes) : GenImagePostFetched(head)
  \/ \E resp \in GenEditOutcomes, now \in 0 .. MaxClock : GenImagePost(resp, now)
  \/ GenTimeout

\* Every outstanding call eventually returns or fails, and a started
\* timeout eventually fires.
GenFairSpec == GenSpec /\ WF_vars(GenSettle)

\* The Generation tab renders the gallery, with its star, regenerate and
\* download buttons, in place of the progress bar once isGenerating is false.
\* Variant: the gallery is rendered next to the progress bar.
GalleryShownWhileLoading == currentStep = StepGeneration

GalleryShown == currentStep = StepGeneration /\ ~isGenerating

\* The Home component is unmounted. Nothing of Home runs on unmount: the
\* component registers no effect, so no cleanup is called, and the interval
\* and the pending calls of generateAdVariations stay scheduled. The
\* values passed to the state setters from then on are not rendered.
Unmount ==
  /\ mounted
  /\ mounted' = FALSE
  /\ UNCHANGED << apiKey, moduleLoaded, clock, formVars, homeVars, timer,
                  gen, regen, svc >>

\* A top-level generation during which the component may be unmounted
TeardownSpec == Init /\ [][GenNext \/ Unmount]_vars

\* ------------------------------------------------------------------ handleRegenerateAd

\* ad.id === id, the test of the updaters passed to setGeneratedAds
\* Variant: the updater rewrites every ad of the batch.
TargetsAny(ad, id) == TRUE

Targets(ad, id) == ad.id = id

\* prevAds.map((ad) => ad.id === id ? f(ad) : ad)
MapAds(ads, id, f(_)) ==
  [i \in DOMAIN ads |-> IF Targets(ads[i], id) THEN f(ads[i]) ELSE ads[i]]

\* generatedAds.find((ad) => ad.id === id): the index of the first match, or 0
RECURSIVE FindAd(_, _, _)
FindAd(ads, id, from) ==
  IF from > Len(ads) THEN 0
  ELSE IF ads[from].id = id THEN from ELSE FindAd(ads, id, from + 1)

MarkRegenerating(ad) == [ad EXCEPT !.isRegenerating = TRUE]

PlaceholderUrl(r) ==
  << "http",
     "s://images.unsplash.com/photo-1611162617213-7d7a39e9b1d7?w=800&q=80&random=",
     r >>

\* The ad after a regeneration ended with image url.
\* Variant: the regenerating flag is left as it is.
RegeneratedKeepsFlag(ad, url) == [ad EXCEPT !.imageUrl = url, !.rating = Null]

\* Variant: the ad is built anew without spreading the old one.
RegeneratedWithoutSpread(ad, url) == Ad(ad.id, url, << >>)

\* Variant: the rating is kept.
RegeneratedKeepsRating(ad, url) ==
  [ad EXCEPT !.imageUrl = url, !.isRegenerating = FALSE]

Regenerated(ad, url) ==
  [ad EXCEPT !.imageUrl = url, !.rating = Null, !.isRegenerating = FALSE]

CreativitySuffix == << "\n\n- Make it slightly more creative." >>

\* currentAdTypes.find((at) => at.type === adType) || {type, prompt: ""},
\* then the creativity instruction appended to its prompt
RECURSIVE FindTypePrompt(_, _)
FindTypePrompt(adTypes, adType) ==
  IF adTypes = << >> THEN << >>
  ELSE IF Head(adTypes).hasType /\ Head(adTypes).type = adType
       THEN Head(adTypes).prompt
       ELSE FindTypePrompt(Tail(adTypes), adType)

\* The lowest slot not yet used
FreeSlot(s) ==
  /\ regen[s].pc = "idle"
  /\ \A t \in RegenSlots : t < s => regen[t].pc # "idle"

\* generationError after the inner catch of handleRegenerateAd, which only
\* logs the error it caught.
\* Variant: the catch reports the failure in the banner.
RegenBannerRaised(error) == Some("Failed to regenerate ad")

RegenBanner(error) == error

\* The inner catch and the fallback at the end of handleRegenerateAd; r is
\* Math.random().
RegenFallback(s) ==
  /\ generationError' = RegenBanner(generationError)
  /\ \E r \in RandomValues :
       generatedAds' =
         MapAds(generatedAds, regen[s].id, LAMBDA ad : Regenerated(ad, PlaceholderUrl(r)))
  /\ regen' = [regen EXCEPT ![s] = [RegenIdle EXCEPT !.pc = "done", !.id = regen[s].id]]

\* generatedAds.find((ad) => ad.id === id) found an ad
\* Variant: the lookup result is not tested.
RegenTargetAssumed(ads, id) == TRUE

RegenTargetFound(ads, id) == FindAd(ads, id, 1) # 0

\* An id that no ad carries
UnknownId == << "unknown" >>

\* handleRegenerateAd(id) up to its first await. The Regenerate button of
\* an ad of the gallery passes that ad's id and is disabled while the ad is
\* regenerating; a call with an id no ad carries returns at once.
\* disabled={ad.isRegenerating} of the Regenerate button of a card
\* Variant: the button is never disabled.
RegenerateNeverDisabled(ad) == FALSE

RegenerateDisabled(ad) == ad.isRegenerating

HandleRegenerateAd(s, id) ==
  /\ mounted
  /\ GalleryShown
  /\ FreeSlot(s)
  /\ LET k == FindAd(generatedAds, id, 1)
         adType == IF k # 0 /\ generatedAds[k].adType # << >>
                   THEN generatedAds[k].adType
                   ELSE CreativeConceptAd IN
       /\ k # 0 => ~RegenerateDisabled(generatedAds[k])
       /\ IF ~RegenTargetFound(generatedAds, id)
          THEN UNCHANGED << generatedAds, regen >>
          ELSE IF productImage # Null /\ productDescription # << >>
          THEN /\ generatedAds' = MapAds(generatedAds, id, MarkRegenerating)
               /\ regen' = [regen EXCEPT ![s] =
                              [RegenIdle EXCEPT !.pc = "import", !.id = id,
                                                !.adType = adType]]
          ELSE /\ \E r \in RandomValues :
                    generatedAds' =
                      MapAds(generatedAds, id,
                             LAMBDA ad : Regenerated(ad, PlaceholderUrl(r)))
               /\ regen' = [regen EXCEPT ![s] =
                              [RegenIdle EXCEPT !.pc = "done", !.id = id]]
  /\ UNCHANGED << envVars, moduleLoaded, clock, formVars, currentStep,
                  productDescription, productImage, generationError,
                  isGenerating, progressValue, progressMessage, timer, gen, svc >>

regenFrame ==
  << envVars, clock, formVars, currentStep, productDescription, productImage,
     isGenerating, progressValue, progressMessage, timer, gen, svc >>

\* The dynamic import settles; fileToDataUrl is called.
RegenImported(s, ok) ==
  /\ regen[s].pc = "import"
  /\ moduleLoaded => ok
  /\ moduleLoaded' = (moduleLoaded \/ ok)
  /\ IF ~ok THEN RegenFallback(s)
     ELSE /\ regen' = [regen EXCEPT ![s].pc = "readfile"]
          /\ UNCHANGED << generatedAds, generationError >>
  /\ UNCHANGED regenFrame

\* fileToDataUrl settles; the config URL is fetched for the ad types.
RegenFileRead(s, ok) ==
  /\ regen[s].pc = "readfile"
  /\ IF ~ok THEN RegenFallback(s)
     ELSE /\ regen' = [regen EXCEPT ![s] = Issue([@ EXCEPT !.pc = "config1"], "config")]
          /\ UNCHANGED << generatedAds, generationError >>
  /\ UNCHANGED << regenFrame, moduleLoaded >>

\* The first config fetch resolves with an ok response; its body is read.
RegenConfig1Fetched(s) ==
  /\ regen[s].pc = "config1"
  /\ regen' = [regen EXCEPT ![s].pc = "config1Body"]
  /\ UNCHANGED << regenFrame, moduleLoaded, generatedAds, generationError >>

\* The try block around the first config fetch ends; enhancePrompt is
\* called.
RegenConfigured1(s, cfg) ==
  /\ ConfigSettles(regen[s].pc, cfg, "config1", "config1Body")
  /\ IF EnhanceThrows(apiKey) THEN RegenFallback(s)
     ELSE /\ regen' = [regen EXCEPT ![s] =
                         Issue([@ EXCEPT
                                  !.pc = "enhance",
                                  !.typePrompt =
                                     FindTypePrompt(ResolveAdTypes(cfg), regen[s].adType)
                                     \o CreativitySuffix],
                               "completion")]
          /\ UNCHANGED << generatedAds, generationError >>
  /\ UNCHANGED << regenFrame, moduleLoaded >>

\* enhancePrompt settles; the config URL is fetched for the base prompt.
RegenEnhanced(s, completion) ==
  /\ regen[s].pc = "enhance"
  /\ regen' = [regen EXCEPT ![s] =
                 Issue([@ EXCEPT
                          !.pc = "config2",
                          !.enhancedDescription =
                             EnhanceResult(productDescription, completion)],
                       "config")]
  /\ UNCHANGED << regenFrame, moduleLoaded, generatedAds, generationError >>

\* The second config fetch resolves with an ok response; its body is read.
RegenConfig2Fetched(s) ==
  /\ regen[s].pc = "config2"
  /\ regen' = [regen EXCEPT ![s].pc = "config2Body"]
  /\ UNCHANGED << regenFrame, moduleLoaded, generatedAds, generationError >>

\* The try block around the second config fetch ends; generateImages is
\* called.
RegenConfigured2(s, cfg) ==
  /\ ConfigSettles(regen[s].pc, cfg, "config2", "config2Body")
  /\ LET call == GiStart(apiKey,
                         ResolveBasePrompt(cfg, regen[s].enhancedDescription)
                         \o regen[s].typePrompt, 1) IN
       IF call.st = "thrown" THEN RegenFallback(s)
       ELSE /\ regen' = [regen EXCEPT ![s] =
                           Issue([@ EXCEPT !.pc = "image", !.gi = call], "imageSrc")]
            /\ UNCHANGED << generatedAds, generationError >>
  /\ UNCHANGED << regenFrame, moduleLoaded >>

\* The image-source fetch of the generateImages call resolves.
RegenImageFetched(s) ==
  /\ regen[s].pc = "image"
  /\ regen[s].gi.st = "blob"
  /\ regen' = [regen EXCEPT ![s].gi = GiBlobFetched(@)]
  /\ UNCHANGED << regenFrame, moduleLoaded, generatedAds, generationError >>

\* fetchImageBlob of the generateImages call ends.
RegenImageBlob(s, ok) ==
  /\ regen[s].pc = "image"
  /\ BlobSettles(regen[s].gi, ok)
  /\ LET g == GiBlobDone(regen[s].gi, ok) IN
       IF g.st = "thrown" THEN RegenFallback(s)
       ELSE /\ regen' = [regen EXCEPT ![s] = Issue([@ EXCEPT !.gi = g], "edit")]
            /\ UNCHANGED << generatedAds, generationError >>
  /\ UNCHANGED << regenFrame, moduleLoaded >>

\* The POST of the generateImages call resolves with a response.
RegenImagePostFetched(s, head) ==
  /\ regen[s].pc = "image"
  /\ regen[s].gi.st = "post"
  /\ regen' = [regen EXCEPT ![s].gi = GiPostFetched(@, head)]
  /\ UNCHANGED << regenFrame, moduleLoaded, generatedAds, generationError >>

\* The POST ends (n = 1, so the call ends here): the ad gets the new
\* image, or the fallback applies.
RegenImagePost(s, resp) ==
  /\ regen[s].pc = "image"
  /\ PostSettles(regen[s].gi, resp)
  /\ LET g == GiPostDone(regen[s].gi, resp) IN
       IF g.st = "thrown" THEN RegenFallback(s)
       ELSE /\ generatedAds' =
                 MapAds(generatedAds, regen[s].id,
                        LAMBDA ad : Regenerated(ad, g.imageUrls[1]))
            /\ regen' = [regen EXCEPT ![s] =
                           [RegenIdle EXCEPT !.pc = "done", !.id = regen[s].id]]
            /\ UNCHANGED generationError
  /\ UNCHANGED << regenFrame, moduleLoaded >>

AdIds == { generatedAds[i].id : i \in DOMAIN generatedAds }

\* A step of the regeneration in slot s, with the outcomes of its config
\* fetches, completion call and POST drawn from the given sets.
RegenStepWith(s, configs, completions, edits) ==
  \/ \E id \in AdIds \cup {UnknownId} : HandleRegenerateAd(s, id)
  \/ \E ok \in BOOLEAN : RegenImported(s, ok)
  \/ \E ok \in BOOLEAN : RegenFileRead(s, ok)
  \/ RegenConfig1Fetched(s)
  \/ \E cfg \in configs : RegenConfigured1(s, cfg)
  \/ \E c \in completions : RegenEnhanced(s, c)
  \/ RegenConfig2Fetched(s)
  \/ \E cfg \in configs : RegenConfigured2(s, cfg)
  \/ RegenImageFetched(s)
  \/ \E ok \in BOOLEAN : RegenImageBlob(s, ok)
  \/ \E head \in EditHeads(edits) : RegenImagePostFetched(s, head)
  \/ \E resp \in edits : RegenImagePost(s, resp)

\* A step of the regeneration in slot s.
RegenStep(s) ==
  RegenStepWith(s, ConfigOutcomes, CompletionOutcomes, SessionEditOutcomes)

RegenNext == \E s \in RegenSlots : RegenStep(s)

\* The settling steps of the regeneration in slot s, with the outcomes
\* drawn from the given sets.
RegenSettleWith(s, configs, completions, edits) ==
  \/ \E ok \in BOOLEAN : RegenImported(s, ok)
  \/ \E ok \in BOOLEAN : RegenFileRead(s, ok)
  \/ RegenConfig1Fetched(s)
  \/ \E cfg \in configs : RegenConfigured1(s, cfg)
  \/ \E c \in completions : RegenEnhanced(s, c)
  \/ RegenConfig2Fetched(s)
  \/ \E cfg \in configs : RegenConfigured2(s, cfg)
  \/ RegenImageFetched(s)
  \/ \E ok \in BOOLEAN : RegenImageBlob(s, ok)
  \/ \E head \in EditHeads(edits) : RegenImagePostFetched(s, head)
  \/ \E resp \in edits : RegenImagePost(s, resp)

\* The settling steps of the regeneration in slot s.
RegenSettle(s) ==
  RegenSettleWith(s, ConfigOutcomes, CompletionOutcomes, SessionEditOutcomes)

\* One failure and one success of each call of a regeneration: the config
\* fetch fails or brings a document without overrides, the completion call
\* fails or brings a text, the POST fails or brings a locator.
CoarseConfigOutcomes ==
  { ConfigReject,
    ConfigResponse(TRUE, TRUE, Doc("absent", << >>, "absent", << >>)) }
CoarseCompletionOutcomes ==
  { CompletionReject, CompletionOf("content", EnhancedText) }
CoarseEditOutcomes == { resp \in GenEditOutcomes : resp.rejects \/ resp.ok }

Next == GenNext \/ RegenNext

Spec == Init /\ [][Next]_vars

\* What the user does on the Input tab
FormNext ==
  \/ \E d \in FormDescriptions : HandleDescriptionChange(d)
  \/ \E acceptedFiles \in DropOutcomes : OnDrop(acceptedFiles)
  \/ HandleSubmitInvalid
  \/ HandleSubmit

\* The session seen without the progress timer, which touches only the
\* progress value and message: submission, generation and regenerations.
RegenSpec == Init /\ [][FormNext \/ GenSettle \/ RegenNext]_vars

\* The same session with one failure and one success of each call of a
\* regeneration, in which every outstanding call of the generation and of
\* each regeneration eventually returns or fails.
RegenFairSpec ==
  /\ Init
  /\ [][\/ FormNext
        \/ GenSettle
        \/ \E s \in RegenSlots :
             RegenStepWith(s, CoarseConfigOutcomes, CoarseCompletionOutcomes,
                           CoarseEditOutcomes)]_vars
  /\ WF_vars(GenSettle)
  /\ \A s \in RegenSlots :
       WF_vars(RegenSettleWith(s, CoarseConfigOutcomes, CoarseCompletionOutcomes,
                               CoarseEditOutcomes))

\* ------------------------------------------------------------------ rating

\* The star buttons of a gallery card: [1, 2, 3, 4, 5].map((star) => ...)
\* Variant: a sixth button for no stars.
StarsFromZero == 0 .. 5

Stars == 1 .. 5

\* { ...ad, rating }
\* Variant: the rated ad is built anew from id, image and label.
RatedWithoutSpread(ad, rating) ==
  [Ad(ad.id, ad.imageUrl, ad.adType) EXCEPT !.rating = Some(rating)]

Rated(ad, rating) == [ad EXCEPT !.rating = Some(rating)]

\* The ads that hold a rating
RatedAds(ads) == { i \in DOMAIN ads : ads[i].rating # Null }

\* handleRateAd(id, rating)
HandleRateAd(id, rating) ==
  /\ generatedAds' = MapAds(generatedAds, id, LAMBDA ad : Rated(ad, rating))
  /\ Cardinality(RatedAds(generatedAds')) <= MaxRatings
  /\ UNCHANGED << envVars, moduleLoaded, clock, formVars, currentStep,
                  productDescription, productImage, generationError,
                  isGenerating, progressValue, progressMessage, timer, gen,
                  regen, svc >>

\* handleRatingClick(adId, rating) of the gallery, which is shown in the
\* Generation tab once the loading flag is cleared.
HandleRatingClick(adId, rating) ==
  /\ mounted
  /\ GalleryShown
  /\ HandleRateAd(adId, rating)

RateNext == \E id \in AdIds, star \in Stars : HandleRatingClick(id, star)

\* Two regeneration calls side by side
PairSlots == {1, 2}

PairInit ==
  /\ apiKey \in BOOLEAN
  /\ mounted = TRUE
  /\ HomeInit
  /\ regen = [s \in PairSlots |-> RegenIdle]

\* The gallery with two regeneration calls and the fifth star button of
\* each card, after a top-level generation.
PairNext ==
  \/ FormNext
  \/ GenSettle
  \/ \E s \in PairSlots :
       RegenStepWith(s, CoarseConfigOutcomes, CoarseCompletionOutcomes,
                     CoarseEditOutcomes)
  \/ \E id \in AdIds : HandleRatingClick(id, 5)

PairSpec == PairInit /\ [][PairNext]_vars

\* The session with ratings, seen without the progress timer: the
\* top-level generation, the first regeneration and the star buttons.
RatingSpec == Init /\ [][FormNext \/ GenSettle \/ RegenStep(1) \/ RateNext]_vars

\* ------------------------------------------------------------------ direct service calls

svcFrame ==
  << envVars, moduleLoaded, clock, formVars, homeVars, timer, gen, regen >>

\* enhancePrompt({userPrompt}) up to its await
SvcCallEnhance(userPrompt) ==
  /\ svc.pc = "idle"
  /\ svc' = IF EnhanceThrows(apiKey)
            THEN [svc EXCEPT !.pc = "thrown", !.fn = "enhancePrompt",
                             !.userPrompt = userPrompt,
                             !.message = KeyNotConfigured]
            ELSE Issue([svc EXCEPT !.pc = "enhance", !.fn = "enhancePrompt",
                                   !.userPrompt = userPrompt], "completion")
  /\ UNCHANGED svcFrame

\* The completion call settles; enhancePrompt returns.
SvcEnhanced(completion) ==
  /\ svc.pc = "enhance"
  /\ svc' = [svc EXCEPT !.pc = "returned",
                        !.result = EnhanceResult(svc.userPrompt, completion)]
  /\ UNCHANGED svcFrame

\* The state of the caller after a step of its generateImages call
SvcAfter(a, g) ==
  [a EXCEPT !.gi = g,
            !.pc = IF g.st \in {"thrown", "returned"} THEN g.st ELSE "generate",
            !.message = g.message]

\* generateImages({prompt, originalImageUrl, n}) up to its first await
SvcCallGenerate(n) ==
  /\ svc.pc = "idle"
  /\ LET call == GiStart(apiKey, << "prompt" >>, n)
         a == SvcAfter([svc EXCEPT !.fn = "generateImages"], call) IN
       svc' = IF call.st = "blob" THEN Issue(a, "imageSrc") ELSE a
  /\ UNCHANGED svcFrame

\* The image-source fetch resolves.
SvcImageFetched ==
  /\ svc.pc = "generate"
  /\ svc.gi.st = "blob"
  /\ svc' = [svc EXCEPT !.gi = GiBlobFetched(@)]
  /\ UNCHANGED svcFrame

\* fetchImageBlob ends.
SvcImageBlob(ok) ==
  /\ svc.pc = "generate"
  /\ BlobSettles(svc.gi, ok)
  /\ LET g == GiBlobDone(svc.gi, ok) IN
       svc' = IF g.st = "post" THEN Issue(SvcAfter(svc, g), "edit")
              ELSE SvcAfter(svc, g)
  /\ UNCHANGED svcFrame

\* The POST resolves with a response.
SvcImagePostFetched(head) ==
  /\ svc.pc = "generate"
  /\ svc.gi.st = "post"
  /\ svc' = [svc EXCEPT !.gi = GiPostFetched(@, head)]
  /\ UNCHANGED svcFrame

\* The POST ends.
SvcImagePost(resp) ==
  /\ svc.pc = "generate"
  /\ PostSettles(svc.gi, resp)
  /\ svc' = SvcAfter(svc, GiPostDone(svc.gi, resp))
  /\ UNCHANGED svcFrame

\* The delay between two requests elapses.
SvcDelay ==
  /\ svc.pc = "generate"
  /\ svc.gi.st = "delay"
  /\ svc' = Issue(SvcAfter(svc, GiDelayDone(svc.gi)), "imageSrc")
  /\ UNCHANGED svcFrame

SvcNext ==
  \/ \E d \in FormDescriptions : SvcCallEnhance(d)
  \/ \E c \in CompletionOutcomes : SvcEnhanced(c)
  \/ \E n \in 0 .. MaxCount : SvcCallGenerate(n)
  \/ SvcImageFetched
  \/ \E ok \in BOOLEAN : SvcImageBlob(ok)
  \/ \E head \in EditHeads(EditOutcomes) : SvcImagePostFetched(head)
  \/ \E resp \in EditOutcomes : SvcImagePost(resp)
  \/ SvcDelay

\* The service functions called directly, with any arguments.
SvcSpec == Init /\ [][SvcNext]_vars

\* generateImages called directly
SvcGenerateNext ==
  \/ \E n \in 0 .. MaxCount : SvcCallGenerate(n)
  \/ SvcImageFetched
  \/ \E ok \in BOOLEAN : SvcImageBlob(ok)
  \/ \E head \in EditHeads(EditOutcomes) : SvcImagePostFetched(head)
  \/ \E resp \in EditOutcomes : SvcImagePost(resp)
  \/ SvcDelay

\* The image requests of a top-level batch and of a direct generateImages
\* call, without the progress timer.
ImageSpec == Init /\ [][FormNext \/ GenSettle \/ SvcGenerateNext]_vars

\* ------------------------------------------------------------------ claims

\* One ad per ad type of the sequence, in order, each with an image
BatchPerType(adTypes) ==
  /\ Len(generatedAds) = Len(adTypes)
  /\ \A i \in DOMAIN generatedAds :
       /\ generatedAds[i].adType = adTypes[i].type
       /\ generatedAds[i].imageUrl # << >>

\* Exactly the three fallback ads with the three canonical labels
BatchFallback ==
  /\ Len(generatedAds) = 3
  /\ generatedAds[1].adType = CreativeConceptAd
  /\ generatedAds[2].adType = BenefitHighlightAd
  /\ generatedAds[3].adType = EcommerceStyleAd
  /\ generatedAds = fallbackAds

\* The messages the outer catch of generateAdVariations can report
EscapedMessages ==
  { KeyNotConfigured, ChunkLoadFailed, "Failed to generate ad variations" }

\* The top-level generation has ended and the loading flag is cleared
GenEnded == gen.pc = "done" /\ ~isGenerating

\* C1 as stated: once a top-level generation has ended, the loading flag is
\* cleared and the batch is one ad per resolved ad type or the three
\* fallback ads, and it is not empty after a failed generation.
C1_AsStated ==
  gen.pc = "done" =>
    /\ ~isGenerating
    /\ BatchPerType(gen.adTypes) \/ BatchFallback
    /\ generationError # Null => generatedAds # << >>

\* The three ways a top-level generation ends
C1_Settled ==
  /\ GenEnded
  /\ \/ generationError = Null /\ BatchPerType(gen.adTypes)
     \/ generationError # Null /\ BatchFallback
     \/ /\ generationError # Null
        /\ generationError[1] \in EscapedMessages
        /\ generatedAds = << >>

\* C1 amended: every validated submission enters the Generation phase and
\* leads to a state with the loading flag cleared in which (a) no error is
\* set and the batch is one ad with an image per resolved ad type, or (b)
\* an image request failed and the batch is the three fallback ads, or (c)
\* an exception escaped to the outer catch (missing credential, module
\* load or image read failure) and the batch is empty with the error set.
C1_Generation ==
  /\ (gen.pc = "import") ~> C1_Settled
  /\ [](gen.pc # "idle" => currentStep = StepGeneration)

\* A submission that ended with three generated ads
C1_Witness ==
  GenEnded /\ generationError = Null /\ Len(generatedAds) = 3

\* C2: the batch of a top-level generation is never a mix. The ads are all
\* API-sourced (generated ids) or exactly the three fallback ads; no ad is
\* published while the loop runs; the fallback ads come with the error set
\* and, until a regeneration replaces an image, with their stock images; a
\* batch of generated ads comes without an error.
AllGenerated ==
  \A i \in DOMAIN generatedAds : Head(generatedAds[i].id) = "gen-"
AllFallback ==
  /\ Len(generatedAds) = Len(fallbackAds)
  /\ \A i \in DOMAIN generatedAds :
       /\ generatedAds[i].id = fallbackAds[i].id
       /\ generatedAds[i].adType = fallbackAds[i].adType
NoRegeneration == \A s \in RegenSlots : regen[s].pc = "idle"

C2_NeverMixed ==
  /\ AllGenerated \/ AllFallback
  /\ gen.pc = "image" => generatedAds = << >>
  /\ AllFallback => generationError # Null
  /\ AllFallback /\ NoRegeneration => generatedAds = fallbackAds
  /\ AllGenerated /\ generatedAds # << >> => generationError = Null

\* A batch of fallback ads installed for a failed image request
C2_Witness ==
  /\ gen.pc \in {"timeout", "done"}
  /\ generatedAds = fallbackAds
  /\ generationError = Some(FailedToFetch)

\* A non-OK response carrying a JSON error envelope with a message
IsErrorEnvelope(resp) ==
  ~resp.rejects /\ ~resp.ok /\ resp.parses /\ ~resp.json.isNull
  /\ resp.json.errMsg # Null

\* C3 as stated: when the image-edit endpoint answers a top-level request
\* with a non-success status and an envelope whose error.message is m,
\* generationError becomes exactly m and the fallback ads are installed.
C3_AsStated ==
  [][\A resp \in GenEditOutcomes, now \in 0 .. MaxClock :
       GenImagePost(resp, now) /\ IsErrorEnvelope(resp) =>
         /\ generationError' = Some(resp.json.errMsg[1])
         /\ generatedAds' = fallbackAds]_vars

\* C3 amended: generationError becomes m followed by " (Status: <status>)",
\* and the three fallback ads with their stock images are installed.
C3_StatusSuffixed ==
  [][\A resp \in GenEditOutcomes, now \in 0 .. MaxClock :
       GenImagePost(resp, now) /\ IsErrorEnvelope(resp) =>
         /\ generationError' =
              Some(resp.json.errMsg[1] \o " (Status: " \o ToString(resp.status) \o ")")
         /\ generatedAds' = fallbackAds]_vars

\* The example of the claim: HTTP 400 with message "invalid image"
C3_Witness ==
  /\ generationError = Some("invalid image (Status: 400)")
  /\ generatedAds = fallbackAds

\* C4: the loading flag, once set, is eventually cleared on every path, and
\* an exception that escapes to the outer catch is recorded in
\* generationError as the loading flag is cleared.
C4_LoadingClears ==
  /\ isGenerating ~> ~isGenerating
  /\ [][gen.pc \in {"import", "readfile"} /\ gen'.pc = "done" =>
          generationError' # Null /\ ~isGenerating']_vars

\* The loading flag cleared after an exception escaped from enhancePrompt
C4_Witness ==
  gen.pc = "done" /\ ~isGenerating /\ generationError = Some(KeyNotConfigured)

\* C5: the loading flag is only ever cleared with progress at 100 and the
\* completion message showing.
C5_AsStated ==
  [][isGenerating /\ ~isGenerating' =>
       progressValue = FullProgress /\ progressMessage = "Complete!"]_vars

\* The completion call did not yield an enhanced description
FailedCompletion(c) ==
  c.rejects \/ c.choices # "content" \/ Trim(c.content) = << >>

\* C6 as stated: enhancePrompt never propagates an error to its caller.
C6_AsStated == svc.fn = "enhancePrompt" => svc.pc # "thrown"

\* C6 amended: enhancePrompt propagates an error only for a missing
\* credential; for a network failure and for a response without choices or
\* content it returns the original description unchanged.
C6_BestEffort ==
  /\ [](svc.fn = "enhancePrompt" /\ svc.pc = "thrown" =>
          ~apiKey /\ svc.message = KeyNotConfigured)
  /\ [](svc.fn = "enhancePrompt" /\ apiKey => svc.pc # "thrown")
  /\ [][\A c \in CompletionOutcomes :
          SvcEnhanced(c) /\ FailedCompletion(c) =>
            svc'.pc = "returned" /\ svc'.result = svc.userPrompt]_vars

\* enhancePrompt returned the original description
C6_Witness ==
  /\ svc.fn = "enhancePrompt"
  /\ svc.pc = "returned"
  /\ svc.userPrompt = ValidDescription
  /\ svc.result = ValidDescription

\* C7: with the credential absent, a call of enhancePrompt or of
\* generateImages fails with the configuration error and has issued no
\* network request.
C7_NoCredentialNoRequest ==
  ~apiKey /\ svc.pc # "idle" =>
    /\ svc.pc = "thrown"
    /\ svc.message = KeyNotConfigured
    /\ svc.reqs = NoRequests

\* generateImages failed for the missing credential
C7_Witness ==
  ~apiKey /\ svc.fn = "generateImages" /\ svc.pc = "thrown" /\ svc.gi.n > 0

\* C8: with the credential missing no step writes an image into the batch:
\* the batch is the same after every step as before it.
C8_NoFallbackContent ==
  [][~apiKey => generatedAds' = generatedAds]_vars

\* A top-level submission that failed for the missing credential
C8_Witness ==
  /\ ~apiKey
  /\ gen.pc = "done"
  /\ generationError = Some(KeyNotConfigured)
  /\ generatedAds = << >>

\* The config fetch failed, was not OK, or its body is not valid JSON
ConfigFailed(cfg) == cfg.rejects \/ ~cfg.ok \/ ~cfg.parses

\* C9: when the config fetch fails, the resolved base prompt and adTypes
\* are the built-in defaults and the flow goes on to the first image
\* request with no error set.
C9_DefaultsOnFailure ==
  [][\A cfg \in ConfigOutcomes :
       GenConfigured(cfg) /\ ConfigFailed(cfg) =>
         /\ gen'.basePrompt = DefaultBasePrompt(gen.enhancedDescription)
         /\ gen'.adTypes = DefaultAdTypes
         /\ gen'.pc = "image"
         /\ gen'.gi.st = "blob"
         /\ gen'.reqs.imageSrc = 1
         /\ generationError' = Null]_vars

\* The loop running on the built-in defaults
C9_Witness ==
  /\ gen.pc = "image"
  /\ gen.adTypes = DefaultAdTypes
  /\ gen.basePrompt = DefaultBasePrompt(gen.enhancedDescription)
  /\ generationError = Null

\* C10: the fields of the fetched document are merged independently. With
\* adTypes and no basePrompt the base prompt is the built-in default around
\* the enhanced description and adTypes is the fetched list; with a
\* basePrompt and no adTypes, adTypes is the built-in three-entry default.
C10_IndependentMerge ==
  [][\A cfg \in ConfigOutcomes :
       GenConfigured(cfg) /\ ConfigReadable(cfg) /\ gen'.pc = "image" =>
         /\ cfg.doc.adTypes = "array" /\ cfg.doc.base = "absent" =>
              /\ gen'.basePrompt = DefaultBasePrompt(gen.enhancedDescription)
              /\ gen'.adTypes = cfg.doc.list
         /\ cfg.doc.base = "string" /\ cfg.doc.basePrompt # << >>
            /\ cfg.doc.adTypes = "absent" =>
              /\ gen'.adTypes = DefaultAdTypes
              /\ Len(gen'.adTypes) = 3
              /\ gen'.basePrompt =
                   ReplaceFirst(cfg.doc.basePrompt, "{DESCRIPTION}",
                                gen.enhancedDescription)]_vars

\* The loop running on fetched adTypes and the built-in base prompt
C10_Witness ==
  /\ gen.pc = "image"
  /\ gen.adTypes = << AdTypeX >>
  /\ gen.basePrompt = DefaultBasePrompt(gen.enhancedDescription)

\* C11: a fetched document whose adTypes is the empty list leaves the
\* built-in three ad types in force, so the adTypes the loop iterates are
\* never empty.
C11_AsStated ==
  [][\A cfg \in ConfigOutcomes :
       GenConfigured(cfg) /\ ConfigReadable(cfg)
       /\ cfg.doc.adTypes = "array" /\ cfg.doc.list = << >> =>
         gen'.adTypes = DefaultAdTypes]_vars

\* C12: a generateImages call with count n that returns has collected
\* exactly n locators from exactly n requests, and each response handled
\* without failing appends the locator extracted from it, so the i-th
\* locator is that of the i-th response.
C12_ExactlyN ==
  /\ [](svc.fn = "generateImages" /\ svc.pc = "returned" =>
          /\ svc.gi.n > 0
          /\ Len(svc.gi.imageUrls) = svc.gi.n
          /\ svc.reqs.edit = svc.gi.n)
  /\ [][\A resp \in EditOutcomes :
          SvcImagePost(resp) /\ svc'.pc # "thrown" =>
            /\ svc'.gi.imageUrls =
                 Append(svc.gi.imageUrls, RequestOutcome(resp).url)
            /\ Len(svc'.gi.imageUrls) = svc.gi.i + 1]_vars

\* A call with n >= 2 that returned locators of two different responses
C12_Witness ==
  /\ svc.fn = "generateImages"
  /\ svc.pc = "returned"
  /\ svc.gi.n >= 2
  /\ svc.gi.imageUrls[1] = LocatorA
  /\ svc.gi.imageUrls[2] = LocatorB

\* The image-edit requests of the running batch that have no response yet
EditOutstanding == gen.reqs.edit - Len(gen.ads)

\* C13: within a top-level batch at most one image-edit request is
\* outstanding at any time, and a request is issued only when every
\* earlier request of the batch has been answered.
C13_Sequential ==
  /\ [](gen.pc = "image" =>
          /\ EditOutstanding \in {0, 1}
          /\ EditOutstanding = 1 <=> gen.gi.st \in {"post", "postBody"}
          /\ gen.reqs.edit \in {gen.k - 1, gen.k})
  /\ [][gen'.reqs.edit > gen.reqs.edit =>
          /\ gen'.reqs.edit = gen.reqs.edit + 1
          /\ Len(gen.ads) = gen.reqs.edit]_vars

\* The request for the second ad type outstanding after the first response
C13_Witness ==
  /\ gen.pc = "image"
  /\ gen.gi.st = "post"
  /\ gen.k = 2
  /\ Len(gen.ads) = 1
  /\ gen.reqs.edit = 2

\* A regeneration call for id is outstanding: started and not yet finished
RegenOutstanding(id) ==
  \E s \in RegenSlots : regen[s].pc \notin {"idle", "done"} /\ regen[s].id = id

\* C14: an ad has isRegenerating = TRUE only if a regeneration call for its
\* id is outstanding.
C14_FlagOnlyWhileOutstanding ==
  \A i \in DOMAIN generatedAds :
    generatedAds[i].isRegenerating => RegenOutstanding(generatedAds[i].id)

\* An ad marked regenerating while its call is outstanding
C14_Witness ==
  \E i \in DOMAIN generatedAds :
    generatedAds[i].isRegenerating /\ RegenOutstanding(generatedAds[i].id)

\* The regeneration in slot s has finished and no ad with its id is marked
RegenFinished(s) ==
  /\ regen[s].pc = "done"
  /\ \A i \in DOMAIN generatedAds :
       generatedAds[i].id = regen[s].id => ~generatedAds[i].isRegenerating

\* C15: every regeneration that has marked its ad eventually finishes with
\* that ad's isRegenerating FALSE, whether the image request succeeded or
\* any step failed.
C15_FlagEventuallyCleared ==
  \A s \in RegenSlots :
    (regen[s].pc \notin {"idle", "done"}) ~> RegenFinished(s)

\* A regeneration that finished on the failure path, the flag cleared
C15_Witness ==
  \E s \in RegenSlots, i \in DOMAIN generatedAds :
    /\ RegenFinished(s)
    /\ generatedAds[i].id = regen[s].id
    /\ generatedAds[i].imageUrl \in { PlaceholderUrl(r) : r \in RandomValues }

\* C16: a step of a regeneration preserves the number and order of the ads
\* and the id and adType of every ad, and changes no field of an ad whose
\* id is not the id that regeneration was called with.
C16_OnlyTargetChanges ==
  [][\A s \in RegenSlots :
       RegenStep(s) =>
         /\ Len(generatedAds') = Len(generatedAds)
         /\ \A i \in DOMAIN generatedAds :
              /\ generatedAds'[i].id = generatedAds[i].id
              /\ generatedAds'[i].adType = generatedAds[i].adType
              /\ generatedAds'[i] # generatedAds[i] =>
                   generatedAds[i].id = regen'[s].id]_vars

\* A regeneration replaced the image of the second ad only
C16_Witness ==
  /\ Len(generatedAds) = 3
  /\ generatedAds[1] = fallbackAds[1]
  /\ generatedAds[3] = fallbackAds[3]
  /\ generatedAds[2].imageUrl # fallbackAds[2].imageUrl
  /\ generatedAds[2].id = fallbackAds[2].id
  /\ generatedAds[2].adType = fallbackAds[2].adType

\* C17: the step that finishes a regeneration leaves its ad without a
\* rating, on the success path and on the placeholder path, whatever rating
\* the ad held while the regeneration was outstanding.
C17_RatingCleared ==
  [][\A s \in RegenSlots :
       regen[s].pc \notin {"idle", "done"} /\ regen'[s].pc = "done" =>
         \A i \in DOMAIN generatedAds' :
           generatedAds'[i].id = regen[s].id =>
             generatedAds'[i].rating = Null]_vars

\* A finished regeneration with a placeholder image and no rating
C17_Witness ==
  \E s \in RegenSlots, i \in DOMAIN generatedAds :
    /\ regen[s].pc = "done"
    /\ generatedAds[i].id = regen[s].id
    /\ generatedAds[i].imageUrl \in { PlaceholderUrl(r) : r \in RandomValues }
    /\ generatedAds[i].rating = Null

\* C18: no step of a regeneration changes generationError, the loading
\* flag, the current phase or the progress value.
C18_NoBanner ==
  [][RegenNext =>
       UNCHANGED << generationError, isGenerating, currentStep,
                    progressValue >>]_vars

\* A regeneration that failed after a successful batch: no error is shown
C18_Witness ==
  \E s \in RegenSlots, i \in DOMAIN generatedAds :
    /\ regen[s].pc = "done"
    /\ generatedAds[i].imageUrl \in { PlaceholderUrl(r) : r \in RandomValues }
    /\ generationError = Null
    /\ ~isGenerating

\* C19: handleRegenerateAd with an id that no ad of the batch carries
\* changes nothing: no state update, no activation, no request.
C19_UnknownIdNoOp ==
  [][\A s \in RegenSlots, id \in AdIds \cup {UnknownId} :
       HandleRegenerateAd(s, id) /\ FindAd(generatedAds, id, 1) = 0 =>
         UNCHANGED vars]_vars

\* The gallery shown with a batch that holds no ad with the unknown id, and
\* no regeneration started
C19_Witness ==
  /\ currentStep = StepGeneration
  /\ ~isGenerating
  /\ generatedAds # << >>
  /\ FindAd(generatedAds, UnknownId, 1) = 0
  /\ \A s \in RegenSlots : regen[s] = RegenIdle

\* C20: each ad's rating is absent or an integer in 1..5.
C20_RatingInRange ==
  \A i \in DOMAIN generatedAds :
    \/ generatedAds[i].rating = Null
    \/ generatedAds[i].rating[1] \in 1 .. 5

\* Ads rated with the boundary values
C20_Witness ==
  \E i \in DOMAIN generatedAds :
    generatedAds[i].rating \in { Some(1), Some(5) }

\* C21: the ids of the ads in the batch are pairwise distinct.
C21_AsStated ==
  \A i, j \in DOMAIN generatedAds :
    i # j => generatedAds[i].id # generatedAds[j].id

\* The labels of the batch, in order
BatchLabels == [i \in DOMAIN generatedAds |-> generatedAds[i].adType]

\* C22: when the loop of a top-level generation ends without an error, the
\* batch has one ad per resolved ad type in the order of the sequence, the
\* i-th ad with the i-th type's label; with the built-in ad types the
\* labels are Creative Concept Ad, Benefit Highlight Ad, Ecommerce-Style Ad
\* in that order and exactly three image-edit requests were issued.
C22_OrderFollowsTypes ==
  [][(gen.pc # "timeout" /\ gen'.pc = "timeout" /\ generationError' = Null) =>
       /\ Len(generatedAds') = Len(gen'.adTypes)
       /\ \A i \in DOMAIN generatedAds' :
            generatedAds'[i].adType = gen'.adTypes[i].type
       /\ gen'.adTypes = DefaultAdTypes =>
            /\ generatedAds'[1].adType = CreativeConceptAd
            /\ generatedAds'[2].adType = BenefitHighlightAd
            /\ generatedAds'[3].adType = EcommerceStyleAd
            /\ gen.reqs.edit = 3]_vars

\* A generation with the built-in ad types that ended with its three ads
C22_Witness ==
  /\ gen.pc \in {"timeout", "done"}
  /\ generationError = Null
  /\ gen.adTypes = DefaultAdTypes
  /\ BatchLabels = << CreativeConceptAd, BenefitHighlightAd, EcommerceStyleAd >>
  /\ AllGenerated

\* The description of the form is empty or has white space only
BlankDescription == \A i \in DOMAIN formDescription : IsSpace(formDescription[i])

\* The form cannot be submitted: blank description or no image
InvalidForm == BlankDescription \/ formImage = Null

\* C23: a submission of a form with a blank description or without an
\* image sets a form error message and nothing else: onSubmit is not
\* invoked (no product is stored, no generation starts), the phase stays
\* Input, the loading flag stays false and no request is issued. No step
\* from an invalid form leaves the Input phase, so the phase changes from
\* Input to Generation only on a validated submission.
C23_InvalidRejected ==
  [][/\ (HandleSubmitInvalid /\ InvalidForm) =>
          /\ formError' # Null
          /\ BlankDescription => formError' = Some("Please enter a product description")
          /\ ~BlankDescription => formError' = Some("Please upload a product image")
     /\ (currentStep = StepInput /\ InvalidForm) =>
          /\ currentStep' = StepInput
          /\ ~isGenerating'
          /\ gen' = gen /\ gen.pc = "idle" /\ gen.reqs = NoRequests
          /\ productDescription' = productDescription
          /\ productImage' = productImage
     /\ (currentStep = StepInput /\ currentStep' = StepGeneration) =>
          /\ ~InvalidForm
          /\ productDescription' = formDescription
          /\ productImage' = formImage]_vars

\* A form with a description and no image was submitted and rejected
C23_Witness ==
  /\ currentStep = StepInput
  /\ formDescription = ValidDescription
  /\ formImage = Null
  /\ formError = Some("Please upload a product image")
  /\ ~isGenerating
  /\ gen.pc = "idle"

\* C24 as stated: from the end of the generation sequence, when progress
\* is forced to 100 with the completion message, until the loading flag
\* clears, no timer tick changes the progress value or message.
C24_AsStated ==
  gen.pc = "timeout" =>
    /\ isGenerating
    /\ progressValue = FullProgress
    /\ progressMessage = "Complete!"

\* C25 as stated: after the component is unmounted no timer tick occurs.
C25_AsStated == [][~mounted => timer'.ticks = timer.ticks]_vars

\* The regeneration in slot s is outstanding and has marked its ad
PairOutstanding(s) == regen[s].pc \notin {"idle", "done"}

\* C26: a rating of B and the end of a regeneration of B are computed from
\* the batch current at that step, so nothing of another ad is lost. A
\* rating click on id gives the ads with that id the rating and leaves
\* every other ad, the ads still regenerating included, as it is; the step
\* that ends a regeneration clears the flag of its own ad and leaves every
\* other ad with its current rating, image and flag; an ad stays marked
\* for as long as its own regeneration is outstanding.
C26_NoLostUpdate ==
  /\ [][/\ \A id \in AdIds :
             HandleRatingClick(id, 5) =>
               \A j \in DOMAIN generatedAds :
                 generatedAds'[j] =
                   IF generatedAds[j].id = id
                   THEN [generatedAds[j] EXCEPT !.rating = Some(5)]
                   ELSE generatedAds[j]
        /\ \A s \in PairSlots :
             (PairOutstanding(s) /\ regen'[s].pc = "done") =>
               /\ Len(generatedAds') = Len(generatedAds)
               /\ \A j \in DOMAIN generatedAds :
                    IF generatedAds[j].id = regen[s].id
                    THEN /\ ~generatedAds'[j].isRegenerating
                         /\ generatedAds'[j].imageUrl # << >>
                         /\ generatedAds'[j].id = generatedAds[j].id
                         /\ generatedAds'[j].adType = generatedAds[j].adType
                    ELSE generatedAds'[j] = generatedAds[j]]_vars
  /\ [](\A s \in PairSlots :
          PairOutstanding(s) =>
            \A j \in DOMAIN generatedAds :
              generatedAds[j].id = regen[s].id => generatedAds[j].isRegenerating)

\* The regeneration of the first ad is still outstanding while a later
\* regeneration of the second ad has replaced its image and the third ad
\* has been rated
C26_Witness ==
  /\ Len(generatedAds) = 3
  /\ regen[1].pc = "image" /\ regen[1].id = generatedAds[1].id
  /\ generatedAds[1].isRegenerating
  /\ regen[2].pc = "done" /\ regen[2].id = generatedAds[2].id
  /\ ~generatedAds[2].isRegenerating
  /\ generatedAds[2].imageUrl = LocatorA
  /\ generatedAds[3].rating = Some(5)
  /\ generatedAds[3].id # generatedAds[1].id
  /\ generatedAds[2].id # generatedAds[1].id

\* C27 as stated: a top-level generation and a regeneration each issue at
\* most one GET to the config URL.
C27_AsStated ==
  /\ gen.reqs.config <= 1
  /\ \A s \in RegenSlots : regen[s].reqs.config <= 1

\* The generic message for a status, bare and as the outer catch of
\* generateImages rewrites it
GenericFailures(status) ==
  LET generic == "API request failed with status " \o ToString(status) IN
    { generic, generic \o " (Status: " \o ToString(status) \o ")" }

\* C28 as stated: when the POST of a generateImages call is answered with
\* a non-success status and a body that is not a JSON error envelope with
\* a message, the call fails with the generic status-coded message.
C28_AsStated ==
  [][\A resp \in EditOutcomes :
       (SvcImagePost(resp) /\ ~resp.rejects /\ ~resp.ok /\ ~IsErrorEnvelope(resp)) =>
         /\ svc'.pc = "thrown"
         /\ svc'.message \in GenericFailures(resp.status)]_vars

\* The first entry of the data list of a body has a url or a payload
HasPrimary(json) ==
  /\ json.hasData /\ json.items # << >>
  /\ json.items[1].url # << >> \/ json.items[1].b64 # << >>

\* C29 as stated: on a success response with a JSON object body, the
\* locator is data[0].url, else the data URL of data[0].b64_json, else the
\* first string anywhere in the response that starts with "http" or
\* "data:"; the call fails, with a missing-image-data error, only when
\* there is no such string.
C29_AsStated ==
  [][\A resp \in EditOutcomes :
       (SvcImagePost(resp) /\ ~resp.rejects /\ resp.ok /\ resp.parses
        /\ ~resp.json.isNull) =>
         LET json == resp.json
             scan == Locators(json.strings) IN
           IF HasPrimary(json) /\ json.items[1].url # << >>
           THEN svc'.gi.imageUrls = Append(svc.gi.imageUrls, json.items[1].url)
           ELSE IF HasPrimary(json)
           THEN svc'.gi.imageUrls =
                  Append(svc.gi.imageUrls,
                         << "data:", "image/png;base64," >> \o json.items[1].b64)
           ELSE IF scan # << >>
           THEN svc'.gi.imageUrls = Append(svc.gi.imageUrls, scan[1])
           ELSE /\ svc'.pc = "thrown"
                /\ svc'.message \in
                     { "API response missing image data - no URL or base64 found",
                       "API response missing image data - no URLs found in response" }]_vars

\* C30: in a generateImages call with count n the delay is waited once
\* after each successful request but the last. A response starts the delay
\* exactly when it yielded a locator and another request follows; the
\* delay that elapses lies between request i and request i + 1, which is
\* issued right after it; a call that returns has gone through n - 1
\* delays (i counts them: it is advanced only when a delay has elapsed)
\* and a call that failed is not in a delay.
C30_DelayBetweenRequests ==
  /\ [][\A resp \in EditOutcomes :
          SvcImagePost(resp) =>
            (svc'.gi.st = "delay" <=>
               RequestOutcome(resp).ok /\ svc.reqs.edit < svc.gi.n)]_vars
  /\ [][SvcDelay =>
          /\ svc.reqs.edit = svc.gi.i + 1
          /\ Len(svc.gi.imageUrls) = svc.reqs.edit
          /\ svc.reqs.edit < svc.gi.n
          /\ svc'.gi.i = svc.gi.i + 1
          /\ svc'.reqs.imageSrc = svc.reqs.imageSrc + 1]_vars
  /\ [](svc.fn = "generateImages" =>
          /\ svc.pc = "returned" =>
               /\ svc.gi.i = svc.gi.n - 1
               /\ svc.reqs.edit = svc.gi.n
          /\ svc.pc = "thrown" => svc.gi.st = "thrown"
          /\ svc.gi.i <= Max(0, svc.gi.n - 1))

\* A call for three images that returned after two delays
C30_Witness ==
  /\ svc.fn = "generateImages"
  /\ svc.pc = "returned"
  /\ svc.gi.n = 3
  /\ svc.gi.i = 2
  /\ svc.reqs.edit = 3
  /\ Len(svc.gi.imageUrls) = 3

\* C31 as stated: a batch that ends without error has issued one
\* image-edit request per resolved ad type, and a batch that ends on a
\* failure at the k-th type has issued k of them.
C31_AsStated ==
  [][(gen.pc = "image" /\ gen'.pc = "timeout") =>
       IF generationError' = Null
       THEN gen.reqs.edit = Len(gen.adTypes)
       ELSE gen.reqs.edit = gen.k]_vars

\* C31 amended: image generation fails fast and never retries. A batch
\* that ends without error has issued one image-edit request per resolved
\* ad type; a batch that ends on a failed image-edit request for the k-th
\* type has issued k of them, and k - 1 when it ends because the image
\* source of the k-th type could not be read, which happens before the
\* request is sent; a batch that has ended issues no request. A
\* generateImages call whose request failed has thrown, a call that has
\* thrown or returned issues no request, and no call issues more requests
\* than its count.
C31_FailFast ==
  /\ [][(gen.pc = "image" /\ gen'.pc = "timeout") =>
          IF generationError' = Null
          THEN gen.reqs.edit = Len(gen.adTypes)
          ELSE /\ gen.gi.st \in {"post", "postBody"} => gen.reqs.edit = gen.k
               /\ gen.gi.st \in {"blob", "blobBody"} => gen.reqs.edit = gen.k - 1
               /\ gen.reqs.edit <= Len(gen.adTypes)]_vars
  /\ [][gen.pc \in {"timeout", "done"} => gen'.reqs = gen.reqs]_vars
  /\ [][gen'.reqs.edit \in {0, gen.reqs.edit, gen.reqs.edit + 1}]_vars
  /\ [][\A resp \in EditOutcomes :
          (SvcImagePost(resp) /\ ~RequestOutcome(resp).ok) =>
            /\ svc'.pc = "thrown"
            /\ svc'.reqs = svc.reqs
            /\ svc.reqs.edit = svc.gi.i + 1]_vars
  /\ [][svc.pc \in {"thrown", "returned"} => svc' = svc]_vars
  /\ [][svc'.reqs.edit \in {svc.reqs.edit, svc.reqs.edit + 1}]_vars
  /\ [](svc.fn = "generateImages" => svc.reqs.edit <= Max(0, svc.gi.n))

\* A batch that failed and got the fallback ads, and a direct call for
\* three images that failed on its second request
C31_Witness ==
  /\ gen.pc \in {"timeout", "done"}
  /\ generationError # Null
  /\ generatedAds = fallbackAds
  /\ svc.fn = "generateImages"
  /\ svc.pc = "thrown"
  /\ svc.gi.n = 3
  /\ svc.reqs.edit = 2
  /\ Len(svc.gi.imageUrls) = 1

\* The ad types of a sequence whose type is the label
Matching(adTypes, label) ==
  { i \in DOMAIN adTypes : adTypes[i].hasType /\ adTypes[i].type = label }

\* C32 as stated: the type prompt of a regeneration is the prompt of the
\* first ad type of the resolved configuration whose type is the ad's
\* stored label, or the prompt of a default ad type when none matches,
\* followed by the creativity suffix.
C32_AsStated ==
  [][\A s \in RegenSlots, cfg \in ConfigOutcomes :
       (RegenConfigured1(s, cfg) /\ regen'[s].pc = "enhance") =>
         LET adTypes == ResolveAdTypes(cfg)
             match == Matching(adTypes, regen[s].adType) IN
           IF match # {}
           THEN \E i \in match :
                  /\ \A j \in match : i <= j
                  /\ regen'[s].typePrompt = adTypes[i].prompt \o CreativitySuffix
           ELSE \E d \in DOMAIN DefaultAdTypes :
                  regen'[s].typePrompt = DefaultAdTypes[d].prompt \o CreativitySuffix]_vars

\* The placeholder references a regeneration can install
Placeholders == { PlaceholderUrl(r) : r \in RandomValues }

\* The ads of the batch that the regeneration in slot s is about
TargetsOf(s) == { i \in DOMAIN generatedAds : generatedAds[i].id = regen[s].id }

\* The enhancement of the regeneration in slot s fell back to the
\* description as the user typed it
EnhancementFellBack(s) ==
  /\ regen[s].pc \in {"config2", "config2Body", "image"}
  /\ regen[s].enhancedDescription = productDescription

\* C33 as stated: when the image request of a regeneration is answered,
\* the ad gets the first locator of the response if the request and the
\* enhancement before it succeeded, and the placeholder otherwise.
C33_AsStated ==
  [][\A s \in RegenSlots, resp \in SessionEditOutcomes :
       RegenImagePost(s, resp) =>
         \A i \in TargetsOf(s) :
           IF RequestOutcome(resp).ok /\ ~EnhancementFellBack(s)
           THEN generatedAds'[i].imageUrl = RequestOutcome(resp).url
           ELSE generatedAds'[i].imageUrl \in Placeholders]_vars

\* C33 amended: a failed enhancement and a failed config fetch do not end
\* a regeneration (with a credential it goes on with the original
\* description and the built-in prompts). The step that ends a
\* regeneration gives the ad the first locator of the response when it is
\* the answer to the image request and yields a locator, and a placeholder
\* reference in every other case (module load, image read, credential,
\* image source or image request failed); every other ad and
\* generationError are unchanged, so no batch fallback is applied.
C33_ImageOfRegeneration ==
  [][\A s \in RegenSlots :
       /\ \A resp \in SessionEditOutcomes :
            RegenImagePost(s, resp) =>
              /\ regen'[s].pc = "done"
              /\ \A i \in TargetsOf(s) :
                   IF RequestOutcome(resp).ok
                   THEN generatedAds'[i].imageUrl = RequestOutcome(resp).url
                   ELSE generatedAds'[i].imageUrl \in Placeholders
       /\ (regen[s].pc \notin {"idle", "done"} /\ regen'[s].pc = "done") =>
            /\ generationError' = generationError
            /\ Len(generatedAds') = Len(generatedAds)
            /\ \A i \in DOMAIN generatedAds :
                 IF i \in TargetsOf(s)
                 THEN \/ generatedAds'[i].imageUrl \in Placeholders
                      \/ /\ regen[s].pc = "image"
                         /\ regen[s].gi.st \in {"post", "postBody"}
                 ELSE generatedAds'[i] = generatedAds[i]
       /\ \A c \in CompletionOutcomes :
            RegenEnhanced(s, c) =>
              regen'[s].pc = "config2" /\ generatedAds' = generatedAds
       /\ \A cfg \in ConfigOutcomes :
            ((RegenConfigured1(s, cfg) \/ RegenConfigured2(s, cfg))
             /\ ConfigFailed(cfg) /\ apiKey) =>
              regen'[s].pc \in {"enhance", "image"} /\ generatedAds' = generatedAds]_vars

\* After a failed batch, a regeneration of the first fallback ad ended
\* with the locator of its image request; the other two fallback ads are
\* as they were
C33_Witness ==
  /\ Len(generatedAds) = 3
  /\ regen[1].pc = "done"
  /\ regen[1].id = fallbackAds[1].id
  /\ generatedAds[1].imageUrl = LocatorB
  /\ ~generatedAds[1].isRegenerating
  /\ generatedAds[2] = fallbackAds[2]
  /\ generatedAds[3] = fallbackAds[3]
  /\ generationError # Null

\* C34 as stated: a timer tick never lowers the progress value and never
\* sets it above 95; while the generation has not completed the value is
\* at most 95, and only the completion of the sequence writes 100.
C34_AsStated ==
  /\ [][TimerTick =>
          /\ progressValue' >= progressValue
          /\ progressValue' <= maxProgress]_vars
  /\ [](gen.pc \in {"import", "enhance", "readfile", "config", "configBody",
                     "image"} =>
          progressValue <= maxProgress)
  /\ [][(progressValue' = FullProgress /\ progressValue # FullProgress) =>
          gen'.pc = "timeout"]_vars

\* C35: a rating click on id with value v gives the ads with that id the
\* rating v and changes nothing else: their id, label, image and
\* regenerating flag, every other ad, the order and length of the batch,
\* generationError, the loading flag, the phase and the running calls are
\* unchanged (a rating step is a step that changes the batch while no call
\* moves). Rating an id that is not in the batch leaves the batch as it is.
C35_RatingChangesRatingOnly ==
  /\ [][(generatedAds' # generatedAds /\ gen' = gen /\ regen' = regen) =>
          \A id \in AdIds, v \in Stars :
            HandleRatingClick(id, v) =>
              /\ Len(generatedAds') = Len(generatedAds)
              /\ \A i \in DOMAIN generatedAds :
                   generatedAds'[i] =
                     IF generatedAds[i].id = id
                     THEN [generatedAds[i] EXCEPT !.rating = Some(v)]
                     ELSE generatedAds[i]
              /\ UNCHANGED << generationError, isGenerating, currentStep,
                              productDescription, productImage, progressValue,
                              progressMessage >>]_vars
  /\ [](\A v \in Stars :
          MapAds(generatedAds, UnknownId, LAMBDA ad : Rated(ad, v)) = generatedAds)

\* An ad rated while its regeneration is outstanding: the flag is kept and
\* the other ads hold no rating
C35_Witness ==
  \E i \in DOMAIN generatedAds :
    /\ generatedAds[i].rating = Some(4)
    /\ generatedAds[i].isRegenerating
    /\ RegenOutstanding(generatedAds[i].id)
    /\ Len(generatedAds) = 3
    /\ \A j \in DOMAIN generatedAds : j # i => generatedAds[j].rating = Null

\* C36: the phase never goes back from Generation to Input and the form
\* cannot be used in the Generation phase, so a top-level generation starts
\* only from the Input phase with no generation started before, a
\* generation that has started is never started again, and once it has
\* ended no step adds, removes or reorders ads of the batch.
C36_SingleGeneration ==
  /\ [][currentStep = StepGeneration =>
          /\ currentStep' = StepGeneration
          /\ UNCHANGED << formDescription, formImage, formError,
                          productDescription, productImage >>]_vars
  /\ [][gen'.pc = "import" => (gen.pc = "idle" /\ currentStep = StepInput)]_vars
  /\ [][gen.pc # "idle" => gen'.pc \notin {"idle", "import"}]_vars
  /\ [][gen.pc = "done" =>
          /\ gen' = gen
          /\ Len(generatedAds') = Len(generatedAds)
          /\ \A i \in DOMAIN generatedAds :
               generatedAds'[i].id = generatedAds[i].id]_vars
  /\ [](gen.pc = "idle" <=> currentStep = StepInput)

\* In the Generation phase after the generation ended with a batch, with a
\* regeneration finished: the session went on without a second submission
C36_Witness ==
  /\ currentStep = StepGeneration
  /\ gen.pc = "done"
  /\ ~isGenerating
  /\ Len(generatedAds) = 3
  /\ regen[1].pc = "done"
  /\ formDescription = << >> /\ formImage = Null

\* C37: while the loading flag is set no ad is marked regenerating and no
\* regeneration call is running; a regeneration starts and a rating is
\* given only with the loading flag cleared, and the flag, once cleared
\* after a generation, is not set again.
C37_NoRegenerationWhileLoading ==
  /\ [](isGenerating =>
          /\ \A i \in DOMAIN generatedAds : ~generatedAds[i].isRegenerating
          /\ \A i \in DOMAIN generatedAds : generatedAds[i].rating = Null
          /\ NoRegeneration)
  /\ [][(regen' # regen \/ (generatedAds' # generatedAds /\ gen' = gen)) =>
          (~isGenerating /\ ~isGenerating')]_vars
  /\ [][(gen.pc = "done" /\ ~isGenerating) => ~isGenerating']_vars

\* The batch is set and the loading flag is still set: the gallery is not
\* shown yet and no ad is regenerating
C37_Witness ==
  /\ isGenerating
  /\ gen.pc = "timeout"
  /\ Len(generatedAds) = 3
  /\ \A i \in DOMAIN generatedAds : ~generatedAds[i].isRegenerating

\* C38: at most one regeneration is outstanding per ad. Two outstanding
\* regeneration calls are for different ids, and a regeneration starts
\* only for an ad that is not marked regenerating, which it then marks.
C38_OneRegenerationPerAd ==
  /\ [](\A s, t \in PairSlots :
          (s # t /\ PairOutstanding(s) /\ PairOutstanding(t)) =>
            regen[s].id # regen[t].id)
  /\ [][\A s \in PairSlots :
          (regen[s].pc = "idle" /\ regen'[s].pc = "import") =>
            \A i \in DOMAIN generatedAds :
              generatedAds[i].id = regen'[s].id =>
                /\ ~generatedAds[i].isRegenerating
                /\ generatedAds'[i].isRegenerating]_vars

\* The regenerations of two different ads overlap
C38_Witness ==
  /\ PairOutstanding(1)
  /\ PairOutstanding(2)
  /\ regen[1].id # regen[2].id
  /\ \E i, j \in DOMAIN generatedAds :
       /\ i # j
       /\ generatedAds[i].id = regen[1].id /\ generatedAds[i].isRegenerating
       /\ generatedAds[j].id = regen[2].id /\ generatedAds[j].isRegenerating

\* C39: whenever the batch is not empty the session holds a non-empty
\* product description and a product image, so a regeneration of an ad of
\* the batch starts on the API path (the module import) and never ends in
\* the handler itself with a placeholder.
C39_ProductHeld ==
  /\ [](generatedAds # << >> =>
          /\ productDescription # << >>
          /\ Trim(productDescription) # << >>
          /\ productImage # Null)
  /\ [][\A s \in RegenSlots :
          (regen[s].pc = "idle" /\ regen'[s] # regen[s]) =>
            /\ regen'[s].pc = "import"
            /\ \A i \in DOMAIN generatedAds :
                 generatedAds'[i].imageUrl = generatedAds[i].imageUrl]_vars

\* A regeneration of an ad of the batch waiting for the module import
C39_Witness ==
  /\ generatedAds # << >>
  /\ productDescription = ValidDescription
  /\ productImage = Some(ProductFile)
  /\ regen[1].pc = "import"
  /\ \E i \in DOMAIN generatedAds :
       generatedAds[i].id = regen[1].id /\ generatedAds[i].isRegenerating

====
